---- MODULE Spec2Model ----
(***************************************************************************)
(* Model of advance-emu: the cooperative cycle scheduler                   *)
(* (src/src/scheduler.rs), the system bus (src/src/system.rs), the memory  *)
(* task (src/src/memory.rs) and the ARM CPU step (src/src/cpu/mod.rs).     *)
(*                                                                         *)
(* Conventions                                                             *)
(*  - task_id is 0-based as in the source; active_tasks is a TLA+ sequence *)
(*    (1-based), so Vec index k is sequence position k + 1.                *)
(*  - scheduled_tasks models the BinaryHeap as a sequence of entries.  The *)
(*    heap's internal layout is not observable: the element peeked is the *)
(*    greatest under Ord (IsPeek).  The position of an entry in the        *)
(*    sequence records only how recently it was (re-)enqueued (oldest     *)
(*    first); no action of the scheduler reads it.                         *)
(*  - The field owner of an entry and the variables call, last, added,     *)
(*    cpu_trace and mem_trace are history variables: they record what was  *)
(*    added, called, resumed and requested, and are never read by the      *)
(*    program's own steps.                                                 *)
(*  - A u32 is a record [hi, lo] of its two 16-bit halves (TLC's integers  *)
(*    are 32-bit signed); all arithmetic on words is modulo 2^32.          *)
(*  - Option<T> is a sequence: <<>> is None and <<x>> is Some(x).          *)
(*  - A panic (unwrap on None, unimplemented!, a failed assertion) ends    *)
(*    the program: the scheduler's pc becomes "panicked", the CPU's abort  *)
(*    field names the cause.                                               *)
(***************************************************************************)
EXTENDS Naturals, Integers, Sequences, FiniteSets

VARIABLES
    current_time,     \* TaskScheduler.current_time
    scheduled_tasks,  \* TaskScheduler.scheduled_tasks
    active_tasks,     \* TaskScheduler.active_tasks (every slot is Some(obj))
    pc,               \* position of run_for: "idle", "loop" or "panicked"
    stop_time,        \* run_for's local stop_time (0 outside a call)
    call,             \* history: the latest run_for call [start, cycles]
    last,             \* history: the latest iteration of run_for's loop
    added,            \* history: number of add_new_task calls so far
    flag,             \* a flag shared by two tasks (flag-waiting scenario)
    bus,              \* system::Bus
    cpu,              \* cpu::ArmCpu
    cpu_trace,        \* history: the latest call of ArmCpu::step
    mem,              \* memory::Memory and the position of its task
    mem_trace,        \* history: the bus master's requests and their service
    calc              \* a pure function under check: its input and its output

vars == <<current_time, scheduled_tasks, active_tasks, pc, stop_time,
          call, last, added, flag, bus, cpu, cpu_trace, mem, mem_trace,
          calc>>

\* the scheduler's own state and history
schedVars == <<current_time, scheduled_tasks, active_tasks, pc, stop_time,
               call, last, added>>

\* what the scheduler itself never touches
envVars == <<flag, bus, cpu, cpu_trace, mem, mem_trace, calc>>

\* the memory unit and its history
memVars == <<mem, mem_trace>>

(***************************************************************************)
(* Bounds                                                                  *)
(***************************************************************************)
MaxTasks == 3      \* add_new_task calls in a behaviour
MaxYield == 2      \* largest cycle count a task yields
MaxCycles == 2     \* largest argument of run_for
MaxTime == 4       \* run_for is not called beyond this virtual time
ScenarioMaxCycles == 3
ScenarioMaxTime == 8
MaxCpuSteps == 6   \* calls of ArmCpu::step in a behaviour
RamWindow == 8     \* bytes of EWRAM and of IWRAM that are modelled
MemMaxTime == 12   \* virtual time the master and memory tasks run up to
FrameCycles == 4   \* argument of run_for in the master and memory scenario
MaxRequests == 2   \* requests a bus master makes in a behaviour

(***************************************************************************)
(* Task results: GeneratorState<WaitCycles, ()>                            *)
(***************************************************************************)
Yielded(cycles) == [type |-> "Yielded", cycles |-> cycles]

Complete == [type |-> "Complete", cycles |-> 0]

(***************************************************************************)
(* Sequence helpers standing for Vec / BinaryHeap primitives               *)
(***************************************************************************)
\* Vec::remove(index): removes slot index and shifts the later slots down.
VecRemove(v, index) ==
    [k \in 1..(Len(v) - 1) |-> IF k < index + 1 THEN v[k] ELSE v[k + 1]]

\* Vec::get_mut(index).and_then(|x| x.as_mut()) is Some
VecHas(v, index) == index + 1 \in 1..Len(v)

\* the queue without the entry at position i
WithoutEntry(q, i) ==
    [k \in 1..(Len(q) - 1) |-> IF k < i THEN q[k] ELSE q[k + 1]]

\* mutant: equal due-times compare equal, whatever the task_id
PopsBefore_DueTimeOnly(a, b) == a.scheduled_at < b.scheduled_at

\* mutant: ties between equal due-times go to the greater task_id
PopsBefore_TieReversed(a, b) ==
    \/ a.scheduled_at < b.scheduled_at
    \/ a.scheduled_at = b.scheduled_at /\ a.task_id > b.task_id

\* impl Ord for ScheduledTask: a > b under Ord, i.e. a is popped before b.
PopsBefore(a, b) ==
    \/ a.scheduled_at < b.scheduled_at
    \/ a.scheduled_at = b.scheduled_at /\ a.task_id < b.task_id

\* BinaryHeap::peek_mut returns a greatest element under Ord.
IsPeek(q, i) ==
    /\ i \in 1..Len(q)
    /\ \A j \in 1..Len(q) : ~PopsBefore(q[j], q[i])

\* mutant: the yielded cycles are counted from the stored current time
YieldedAt_FromCurrentTime(entry, cycles, now) == now + cycles

\* next_task.scheduled_at += cycles (the entry is re-queued by PeekMut's
\* drop); now is self.current_time, which the source does not use here.
YieldedAt(entry, cycles, now) == entry.scheduled_at + cycles

\* mutant: the stop time is the cycle count alone
StopTime_Absolute(now, cycles) == cycles

\* let stop_time = self.current_time + cycles
StopTime(now, cycles) == now + cycles

\* mutant: an entry due exactly at stop_time is still resumed
LoopExits_Late(scheduled_at, stop) == scheduled_at > stop

\* run_for's loop exit test: next_task.scheduled_at >= stop_time
LoopExits(scheduled_at, stop) == scheduled_at >= stop

\* history of the latest loop iteration: what the task returned (kind,
\* cycles), the due-time (at), task_id and owner of the entry it was resumed
\* through, the task object resumed (obj), and the entry's position in
\* enqueue order (pos: the number of entries enqueued no later than it)
NoLast == [kind |-> "none", at |-> 0, task_id |-> 0, obj |-> "none",
           owner |-> "none", cycles |-> 0, pos |-> 0]

NoCall == [start |-> 0, cycles |-> 0, made |-> FALSE]

(***************************************************************************)
(* TaskScheduler::new                                                      *)
(***************************************************************************)
SchedulerNew ==
    /\ current_time = 0
    /\ scheduled_tasks = <<>>
    /\ active_tasks = <<>>
    /\ pc = "idle"
    /\ stop_time = 0
    /\ call = NoCall
    /\ last = NoLast
    /\ added = 0

(***************************************************************************)
(* TaskScheduler::add_new_task(task); obj identifies the task object       *)
(***************************************************************************)
AddNewTask(obj) ==
    /\ pc = "idle"
    /\ LET task_id == Len(active_tasks) IN
        /\ active_tasks' = Append(active_tasks, obj)
        /\ scheduled_tasks' = Append(scheduled_tasks,
               [scheduled_at |-> current_time, task_id |-> task_id,
                owner |-> obj])
    /\ added' = added + 1
    /\ UNCHANGED <<current_time, pc, stop_time, call, last>>

(***************************************************************************)
(* TaskScheduler::run_for(cycles): entry, up to the loop                   *)
(***************************************************************************)
RunForCall(cycles) ==
    /\ pc = "idle"
    /\ call' = [start |-> current_time, cycles |-> cycles, made |-> TRUE]
    /\ IF cycles = 0
       THEN UNCHANGED <<pc, stop_time>>
       ELSE pc' = "loop" /\ stop_time' = StopTime(current_time, cycles)
    /\ UNCHANGED <<current_time, scheduled_tasks, active_tasks, last, added>>

(***************************************************************************)
(* One iteration of run_for's loop that resumes the task of entry i, the   *)
(* task returning result.                                                  *)
(***************************************************************************)
Resume(i, result) ==
    /\ pc = "loop"
    /\ IsPeek(scheduled_tasks, i)
    /\ ~LoopExits(scheduled_tasks[i].scheduled_at, stop_time)
    /\ LET next_task == scheduled_tasks[i]
           task_id == next_task.task_id
       IN
        /\ VecHas(active_tasks, task_id)
        /\ last' = [kind |-> result.type, at |-> next_task.scheduled_at,
                    task_id |-> task_id, obj |-> active_tasks[task_id + 1],
                    owner |-> next_task.owner, cycles |-> result.cycles,
                    pos |-> i]
        /\ IF result.type = "Yielded"
           THEN /\ scheduled_tasks' =
                      Append(WithoutEntry(scheduled_tasks, i),
                             [next_task EXCEPT !.scheduled_at =
                                YieldedAt(next_task, result.cycles,
                                          current_time)])
                /\ UNCHANGED active_tasks
           ELSE /\ scheduled_tasks' = WithoutEntry(scheduled_tasks, i)
                /\ active_tasks' = VecRemove(active_tasks, task_id)
    /\ UNCHANGED <<current_time, pc, stop_time, call, added>>

(***************************************************************************)
(* One iteration of run_for's loop in which the task lookup fails:         *)
(* .unwrap() on None panics and run_for never returns.                     *)
(***************************************************************************)
ResumePanics ==
    /\ pc = "loop"
    /\ \E i \in 1..Len(scheduled_tasks) :
        /\ IsPeek(scheduled_tasks, i)
        /\ ~LoopExits(scheduled_tasks[i].scheduled_at, stop_time)
        /\ ~VecHas(active_tasks, scheduled_tasks[i].task_id)
        /\ last' = [kind |-> "panic", at |-> scheduled_tasks[i].scheduled_at,
                    task_id |-> scheduled_tasks[i].task_id, obj |-> "none",
                    owner |-> scheduled_tasks[i].owner, cycles |-> 0,
                    pos |-> i]
    /\ pc' = "panicked"
    /\ UNCHANGED <<current_time, scheduled_tasks, active_tasks, stop_time,
                   call, added>>
    /\ UNCHANGED envVars

(***************************************************************************)
(* run_for leaves its loop (queue empty or minimum not due) and returns    *)
(***************************************************************************)
RunForReturn ==
    /\ pc = "loop"
    /\ \/ scheduled_tasks = <<>>
       \/ \E i \in 1..Len(scheduled_tasks) :
            /\ IsPeek(scheduled_tasks, i)
            /\ LoopExits(scheduled_tasks[i].scheduled_at, stop_time)
    /\ current_time' = stop_time
    /\ pc' = "idle"
    /\ stop_time' = 0
    /\ UNCHANGED <<scheduled_tasks, active_tasks, call, last, added>>
    /\ UNCHANGED envVars

(***************************************************************************)
(* 32-bit words                                                            *)
(***************************************************************************)
W32(hi, lo) == [hi |-> hi, lo |-> lo]

RECURSIVE Pow2(_)
Pow2(n) == IF n = 0 THEN 1 ELSE 2 * Pow2(n - 1)

\* the value of the n low bits given as a function 0..n-1 -> {0, 1}
RECURSIVE BitsValue(_, _)
BitsValue(bits, n) ==
    IF n = 0 THEN 0 ELSE bits[n - 1] * Pow2(n - 1) + BitsValue(bits, n - 1)

\* bit i of word w, as 0 or 1
Bit(w, i) ==
    IF i < 16 THEN (w.lo \div Pow2(i)) % 2 ELSE (w.hi \div Pow2(i - 16)) % 2

\* the word whose bit i is bits[i]
WordOfBits(bits) ==
    W32(BitsValue([i \in 0..15 |-> bits[16 + i]], 16),
        BitsValue([i \in 0..15 |-> bits[i]], 16))

\* a value below 2^31 as a u32
WordOfNat(n) == W32(n \div 65536, n % 65536)

And32(a, b) == WordOfBits([i \in 0..31 |-> Bit(a, i) * Bit(b, i)])

Or32(a, b) ==
    WordOfBits([i \in 0..31 |-> IF Bit(a, i) + Bit(b, i) > 0 THEN 1 ELSE 0])

Xor32(a, b) == WordOfBits([i \in 0..31 |-> (Bit(a, i) + Bit(b, i)) % 2])

Not32(a) == W32(65535 - a.hi, 65535 - a.lo)

\* u32::rotate_right(n)
RotateRight32(a, n) == WordOfBits([i \in 0..31 |-> Bit(a, (i + n) % 32)])

\* u32::wrapping_add
WrappingAdd32(a, b) ==
    LET lo == a.lo + b.lo
        hi == a.hi + b.hi + (lo \div 65536)
    IN W32(hi % 65536, lo % 65536)

\* u32::overflowing_sub: the wrapped difference and whether it borrowed
OverflowingSub32(a, b) ==
    LET lo == a.lo - b.lo
        borrow_lo == IF lo < 0 THEN 1 ELSE 0
        hi == a.hi - b.hi - borrow_lo
    IN [value |-> W32((hi + 65536) % 65536, (lo + 65536) % 65536),
        overflowed |-> hi < 0]

\* u32::wrapping_sub
WrappingSub32(a, b) == OverflowingSub32(a, b).value

\* u32::overflowing_add
OverflowingAdd32(a, b) ==
    [value |-> WrappingAdd32(a, b),
     overflowed |-> a.hi + b.hi + ((a.lo + b.lo) \div 65536) >= 65536]

\* mutant: the field stops one bit short of limit
BitField_HalfOpen(w, base, limit) ==
    BitsValue([i \in 0..(limit - base - 1) |-> Bit(w, base + i)], limit - base)

\* util.rs bit!(data[base : limit]), a field narrower than 31 bits
BitField(w, base, limit) ==
    BitsValue([i \in 0..(limit - base) |-> Bit(w, base + i)], limit - base + 1)

(***************************************************************************)
(* system::Bus                                                             *)
(***************************************************************************)
None == <<>>

Some(x) == <<x>>

\* impl Default for Bus
BusDefault ==
    [request |-> None, busy |-> FALSE, dma_active |-> FALSE,
     data |-> W32(\hFFFF, \hFFFF)]

\* Bus::make_request
MakeRequest(b, request) == [b EXCEPT !.request = Some(request)]

\* mutant: the CPU looks at busy alone, as a DMA master does
ShouldCpuWait_BusyOnly(b) == b.busy

\* Bus::should_cpu_wait
ShouldCpuWait(b) == b.busy \/ b.dma_active

\* Bus::should_dma_wait
ShouldDmaWait(b) == b.busy

\* mutant: the memory task does not announce an EWRAM access
SetBusy_Omitted(b) == b

\* bus.busy.set(true)
SetBusy(b) == [b EXCEPT !.busy = TRUE]

\* mutant: the slave forgets to release the bus
ClearBusy_Omitted(b) == b

\* bus.busy.set(false)
ClearBusy(b) == [b EXCEPT !.busy = FALSE]

(***************************************************************************)
(* memory.rs: Memory and its task                                          *)
(*                                                                         *)
(* The byte arrays are modelled by their first and their last RamWindow    *)
(* bytes (functions from byte offset to 0..255); every access that does    *)
(* not fault falls inside them.                                            *)
(***************************************************************************)
\* ewram: [u8; 256 * 1024]
EwramLen == 256 * 1024

\* iwram: [u8; 32 * 1024]
IwramLen == 32 * 1024

\* the byte offsets of an array of len bytes that are modelled
RamOffsets(len) == (0..(RamWindow - 1)) \cup ((len - RamWindow)..(len - 1))

\* byteorder::LE::write_u16 / write_u32 on &mut memory[o..], and
\* memory[o] = byte: they panic unless the array holds `bytes` bytes from o
WriteFaults(len, o, bytes) == o + bytes > len

\* byteorder::LE::read_u16(&memory[o..])
LERead16(memory, o) == memory[o] + 256 * memory[o + 1]

\* byteorder::LE::read_u32(&memory[o..])
LERead32(memory, o) == W32(LERead16(memory, o + 2), LERead16(memory, o))

\* byteorder::LE::write_u16(&mut memory[o..], v)
LEWrite16(memory, o, v) ==
    [memory EXCEPT ![o] = v % 256, ![o + 1] = v \div 256]

\* byteorder::LE::write_u32(&mut memory[o..], w)
LEWrite32(memory, o, w) == LEWrite16(LEWrite16(memory, o, w.lo), o + 2, w.hi)

\* mutant: the two half-words change places
Concat16_Swapped(msb, lsb) == W32(lsb, msb)

\* concat16
Concat16(msb, lsb) == W32(msb, lsb)

\* mirror_16to32
Mirror16to32(x) == Concat16(x, x)

\* byte lane k (0 = least significant) of a u32
ByteLane(w, k) ==
    CASE k = 0 -> w.lo % 256
      [] k = 1 -> w.lo \div 256
      [] k = 2 -> w.hi % 256
      [] k = 3 -> w.hi \div 256

\* (data & !mask) | (read & mask) for the mask with ones in the byte lanes
\* first .. first + lanes - 1 (0xFF << 8 * first, 0xFFFF << 8 * first,
\* 0xFFFFFFFF)
MergeUnderMask(data, read, first, lanes) ==
    LET lane(k) == IF k >= first /\ k < first + lanes
                   THEN ByteLane(read, k) ELSE ByteLane(data, k)
    IN W32(lane(2) + 256 * lane(3), lane(0) + 256 * lane(1))

\* do_iwram_rw32: the data latch and the memory after the access
DoIwramRw32(data, memory, offset, op, width) ==
    IF op.type = "Read"
    THEN LET read == LERead32(memory, offset - (offset % 4))
         IN [data |->
                CASE width = "Bit8" ->
                        MergeUnderMask(data, read, offset % 4, 1)
                  [] width = "Bit16" ->
                        MergeUnderMask(data, read,
                                       ((offset \div 2) % 2) * 2, 2)
                  [] width = "Bit32" -> MergeUnderMask(data, read, 0, 4),
             memory |-> memory]
    ELSE [data |-> data,
          memory |->
            CASE width = "Bit8" -> [memory EXCEPT ![offset] = data.lo % 256]
              [] width = "Bit16" -> LEWrite16(memory, offset, data.lo)
              [] width = "Bit32" -> LEWrite32(memory, offset, data)]

\* do_iwram_rw32 panics instead of returning (reads are word-aligned and
\* stay inside the array)
DoIwramRw32Faults(offset, op, width) ==
    /\ op.type = "Write"
    /\ WriteFaults(IwramLen, offset,
                   CASE width = "Bit8" -> 1
                     [] width = "Bit16" -> 2
                     [] width = "Bit32" -> 4)

\* do_write16
DoWrite16(memory, offset, data, width) ==
    IF width = "Bit8"
    THEN [memory EXCEPT ![offset] = data % 256]
    ELSE LEWrite16(memory, offset - (offset % 2), data)

\* do_ewram_rw16: the 16-bit latch and the memory after the access
DoEwramRw16(data, memory, offset, op, width) ==
    IF op.type = "Read"
    THEN [data |-> LERead16(memory, offset - (offset % 2)), memory |-> memory]
    ELSE [data |-> data, memory |-> DoWrite16(memory, offset, data, width)]

\* offset ^ 0b10
OtherHalf(offset) ==
    IF (offset \div 2) % 2 = 1 THEN offset - 2 ELSE offset + 2

\* the first bytes of the BIOS image: mov r0, #0x08000000 ; b +6 words
BiosImage ==
    [o \in 0..7 |-> <<2, 3, 160, 227, 6, 0, 0, 234>>[o + 1]]

\* mutant: the unlocking range is twice the BIOS
BiosUnlockedBy_WideRange(address) == address.hi = 0 /\ address.lo < 32768

\* address < 0x4000
BiosUnlockedBy(address) == address.hi = 0 /\ address.lo < 16384

\* bit!(address[24:31])
RegionOf(address) == address.hi \div 256

\* address & mask as usize, for a mask 2^n - 1 with n <= 18 (0x3FFFF,
\* 0x7FFF, and 0x3FFC less its two low bits)
MaskLow(address, n) ==
    IF n >= 16 THEN (address.hi % Pow2(n - 16)) * 65536 + address.lo
    ELSE address.lo % Pow2(n)

\* mutant: the second half of a 32-bit EWRAM access comes a cycle early
MemoryYield_ShortHigh(position) ==
    CASE position = "wait2" -> 2
      [] position = "wait3" -> 2
      [] OTHER -> 1

\* the cycle counts of the task's three wait_cycles! points
MemoryYield(position) ==
    CASE position = "wait2" -> 2
      [] position = "wait3" -> 1 + 2
      [] OTHER -> 1

\* Memory before its task first runs.  position is where the generator is
\* suspended ("loop": at the top of its loop; "wait2", "wait3": in the two
\* waits of an EWRAM access) or "panicked" once an access has faulted;
\* request, low_latch and high_latch are the
\* generator's locals of those names.
MemoryNew(unlocked) ==
    [bios_unlocked |-> unlocked,
     last_bios_read |-> W32(0, 0),
     ewram |-> [o \in RamOffsets(EwramLen) |-> 0],
     iwram |-> [o \in RamOffsets(IwramLen) |-> 0],
     position |-> "loop",
     request |-> None,
     low_latch |-> 0,
     high_latch |-> 0]

\* run_task, from the top of the loop to the next wait: the memory, the
\* bus, the cycles yielded and the request whose access was completed
MemoryPoll(m, b) ==
    IF b.request = None
    THEN [memory |-> m, bus |-> b, cycles |-> MemoryYield("loop"),
          served |-> None]
    ELSE
    LET request == b.request[1]
        address == request.address
        locked == IF request.op.type = "Read" /\ request.op.is_instruction
                  THEN [m EXCEPT !.bios_unlocked = BiosUnlockedBy(address)]
                  ELSE m
        region == RegionOf(address)
    IN
    CASE region = 0 ->
            LET offset == MaskLow(address, 14) - (MaskLow(address, 14) % 4)
                cached == IF locked.bios_unlocked
                          THEN [locked EXCEPT !.last_bios_read =
                                    LERead32(BiosImage, offset)]
                          ELSE locked
            IN [memory |-> cached,
                bus |-> [b EXCEPT !.data = cached.last_bios_read],
                cycles |-> MemoryYield("loop"),
                served |-> Some(request)]
      [] region = 2 ->
            [memory |-> [locked EXCEPT !.position = "wait2",
                                       !.request = Some(request)],
             bus |-> SetBusy(b),
             cycles |-> MemoryYield("wait2"),
             served |-> None]
      [] region = 3 ->
            LET offset == MaskLow(address, 15)
                r == DoIwramRw32(b.data, locked.iwram, offset, request.op,
                                 request.width)
            IN IF DoIwramRw32Faults(offset, request.op, request.width)
               THEN [memory |-> [locked EXCEPT !.position = "panicked"],
                     bus |-> b, cycles |-> 0, served |-> None]
               ELSE [memory |-> [locked EXCEPT !.iwram = r.memory],
                     bus |-> [b EXCEPT !.data = r.data],
                     cycles |-> MemoryYield("loop"),
                     served |-> Some(request)]
      [] OTHER ->
            [memory |-> locked, bus |-> b, cycles |-> MemoryYield("loop"),
             served |-> None]

\* run_task resumed after wait_cycles!(2): the first 16-bit EWRAM access
MemoryEwramLow(m, b) ==
    LET request == m.request[1]
        offset == MaskLow(request.address, 18)
        r == DoEwramRw16(b.data.lo, m.ewram, offset, request.op,
                         request.width)
        latched == [b EXCEPT !.data = Mirror16to32(r.data)]
    IN
    IF request.width = "Bit32"
    THEN [memory |-> [m EXCEPT !.ewram = r.memory, !.low_latch = r.data,
                               !.high_latch = b.data.hi,
                               !.position = "wait3"],
          bus |-> latched,
          cycles |-> MemoryYield("wait3"),
          served |-> None]
    ELSE [memory |-> [m EXCEPT !.ewram = r.memory, !.low_latch = r.data,
                               !.high_latch = b.data.hi,
                               !.position = "loop"],
          bus |-> ClearBusy(latched),
          cycles |-> MemoryYield("loop"),
          served |-> Some(request)]

\* run_task resumed after wait_cycles!(1 + 2): the second 16-bit access
MemoryEwramHigh(m, b) ==
    LET request == m.request[1]
        offset == MaskLow(request.address, 18)
        r == DoEwramRw16(m.high_latch, m.ewram, OtherHalf(offset),
                         request.op, request.width)
    IN [memory |-> [m EXCEPT !.ewram = r.memory, !.high_latch = r.data,
                             !.position = "loop"],
        bus |-> ClearBusy([b EXCEPT !.data = Concat16(r.data, m.low_latch)]),
        cycles |-> MemoryYield("loop"),
        served |-> Some(request)]

\* one resume of the generator of Memory::run_task
MemoryRunTask(m, b) ==
    CASE m.position = "loop" -> MemoryPoll(m, b)
      [] m.position = "wait2" -> MemoryEwramLow(m, b)
      [] m.position = "wait3" -> MemoryEwramHigh(m, b)

(***************************************************************************)
(* cpu/decode.rs                                                           *)
(***************************************************************************)
\* the patterns of decode_arm_instruction, bit 31 first; 2 stands for a
\* letter (any bit)
PatBX ==
    <<2,2,2,2,0,0,0,1, 0,0,1,0,1,1,1,1, 1,1,1,1,1,1,1,1, 0,0,0,1,2,2,2,2>>

PatMSR ==
    <<2,2,2,2,0,0,0,1, 0,2,1,0,2,2,2,2, 1,1,1,1,0,0,0,0, 0,0,0,0,2,2,2,2>>

PatLoadStoreHalf ==
    <<2,2,2,2,0,0,0,2, 2,1,2,2,2,2,2,2, 2,2,2,2,2,2,2,2, 1,0,1,1,2,2,2,2>>

\* mutant: bit 25 is not tested
PatDataProcessingImm_AnyBit25 ==
    <<2,2,2,2,0,0,2,2, 2,2,2,2,2,2,2,2, 2,2,2,2,2,2,2,2, 2,2,2,2,2,2,2,2>>

PatDataProcessingImm ==
    <<2,2,2,2,0,0,1,2, 2,2,2,2,2,2,2,2, 2,2,2,2,2,2,2,2, 2,2,2,2,2,2,2,2>>

\* mutant: only word accesses (B clear) match
PatLoadStoreImm_WordOnly ==
    <<2,2,2,2,0,1,0,2, 2,0,2,2,2,2,2,2, 2,2,2,2,2,2,2,2, 2,2,2,2,2,2,2,2>>

PatLoadStoreImm ==
    <<2,2,2,2,0,1,0,2, 2,2,2,2,2,2,2,2, 2,2,2,2,2,2,2,2, 2,2,2,2,2,2,2,2>>

PatLoadStoreMultiple ==
    <<2,2,2,2,1,0,0,2, 2,2,2,2,2,2,2,2, 2,2,2,2,2,2,2,2, 2,2,2,2,2,2,2,2>>

PatBranchImm ==
    <<2,2,2,2,1,0,1,2, 2,2,2,2,2,2,2,2, 2,2,2,2,2,2,2,2, 2,2,2,2,2,2,2,2>>

\* decode.rs test(instr, format)
Test(instr, format) ==
    \A k \in 1..32 : format[k] \in {0, 1} => Bit(instr, 32 - k) = format[k]

\* DecodedArmInstruction::decode_arm_instruction
DecodeArmInstruction(instr) ==
    LET cond == BitField(instr, 28, 31) IN
    IF Test(instr, PatBX) THEN
        [variant |-> "BranchAndExchangeReg", cond |-> cond,
         rm |-> BitField(instr, 0, 3)]
    ELSE IF Test(instr, PatMSR) THEN
        [variant |-> "MoveToStatusReg", cond |-> cond,
         saved |-> Bit(instr, 22) # 0,
         field_mask |-> BitField(instr, 16, 19),
         rm |-> BitField(instr, 0, 3)]
    ELSE IF Test(instr, PatLoadStoreHalf) THEN
        [variant |-> "LoadStoreHalfImmOffset", cond |-> cond,
         indexing_p |-> Bit(instr, 24) # 0,
         imm_add |-> Bit(instr, 23) # 0,
         indexing_w |-> Bit(instr, 21) # 0,
         load |-> Bit(instr, 20) # 0,
         rn |-> BitField(instr, 16, 19),
         rd |-> BitField(instr, 12, 15),
         imm_high |-> BitField(instr, 8, 11),
         imm_low |-> BitField(instr, 0, 3)]
    ELSE IF Test(instr, PatDataProcessingImm) THEN
        [variant |-> "DataProcessingImmediate", cond |-> cond,
         opcode |-> BitField(instr, 21, 24),
         s |-> Bit(instr, 20) # 0,
         rn |-> BitField(instr, 16, 19),
         rd |-> BitField(instr, 12, 15),
         rotate |-> BitField(instr, 8, 11),
         imm |-> BitField(instr, 0, 7)]
    ELSE IF Test(instr, PatLoadStoreImm) THEN
        [variant |-> "LoadStoreImmOffset", cond |-> cond,
         indexing_p |-> Bit(instr, 24) # 0,
         imm_add |-> Bit(instr, 23) # 0,
         byte |-> Bit(instr, 22) # 0,
         indexing_w |-> Bit(instr, 21) # 0,
         load |-> Bit(instr, 20) # 0,
         rn |-> BitField(instr, 16, 19),
         rd |-> BitField(instr, 12, 15),
         imm |-> BitField(instr, 0, 11)]
    ELSE IF Test(instr, PatLoadStoreMultiple) THEN
        [variant |-> "LoadStoreMultiple", cond |-> cond,
         indexing_p |-> Bit(instr, 24) # 0,
         upwards |-> Bit(instr, 23) # 0,
         use_banked_or_spsr |-> Bit(instr, 22) # 0,
         indexing_w |-> Bit(instr, 21) # 0,
         load |-> Bit(instr, 20) # 0,
         rn |-> BitField(instr, 16, 19),
         regs |-> BitField(instr, 0, 15)]
    ELSE IF Test(instr, PatBranchImm) THEN
        [variant |-> "BranchImm", cond |-> cond,
         link |-> Bit(instr, 24) # 0,
         offset |-> BitField(instr, 0, 23)]
    ELSE [variant |-> "UnknownInstruction"]

(***************************************************************************)
(* cpu/mod.rs: Cpsr and the ALU                                            *)
(***************************************************************************)
LR == 14

PC == 15

\* flag_field! getter
CpsrFlag(cpsr, bit) == Bit(cpsr, bit) # 0

\* flag_field! setter
CpsrSetFlag(cpsr, bit, c) ==
    WordOfBits([i \in 0..31 |->
        IF i = bit THEN (IF c THEN 1 ELSE 0) ELSE Bit(cpsr, i)])

NegativeBit == 31

ZeroBit == 30

CarryBit == 29

OverflowBit == 29

\* decode_immediate(imm, rotate, carry_in)
DecodeImmediate(imm, rotate, carry_in) ==
    LET result == RotateRight32(WordOfNat(imm), rotate * 2) IN
    [value |-> result,
     carry |-> IF rotate = 0 THEN carry_in ELSE Bit(result, 31) # 0]

\* add_has_signed_overflow(x, y, r)
AddHasSignedOverflow(x, y, r) ==
    Bit(And32(Xor32(x, r), Xor32(y, r)), 31) # 0

\* add_with_carry(op1, op2, carry_in)
AddWithCarry(op1, op2, carry_in) ==
    LET lo == op1.lo + op2.lo + (IF carry_in THEN 1 ELSE 0)
        hi == op1.hi + op2.hi + (lo \div 65536)
        result == W32(hi % 65536, lo % 65536)
    IN [value |-> result,
        carry |-> hi \div 65536 # 0,
        overflow |-> AddHasSignedOverflow(op1, op2, result)]

\* the arm of alu_operation for SUB, CMP (minuend op1) and RSB (minuend
\* op2): the subtraction, its flags, and the three assert_eq! against
\* add_with_carry
AluSubtract(a, b, cpsr0) ==
    LET sub == OverflowingSub32(a, b)
        x == sub.value
        cpsr1 == CpsrSetFlag(cpsr0, CarryBit, ~sub.overflowed)
        cpsr2 == CpsrSetFlag(cpsr1, OverflowBit, AddHasSignedOverflow(a, b, x))
        chk == AddWithCarry(a, Not32(b), TRUE)
    IN [value |-> x,
        cpsr |-> cpsr2,
        asserts_hold |-> /\ x = chk.value
                         /\ CpsrFlag(cpsr2, CarryBit) = chk.carry
                         /\ CpsrFlag(cpsr2, OverflowBit) = chk.overflow]

\* alu_operation(opcode, op1, op2, shifter_carry, cpsr), before the final
\* N and Z update
AluArm(opcode, op1, op2, shifter_carry, cpsr) ==
    LET logical(value) ==
            [value |-> value,
             cpsr |-> CpsrSetFlag(cpsr, CarryBit, shifter_carry),
             asserts_hold |-> TRUE]
        arith(sum) ==
            [value |-> sum.value,
             cpsr |-> CpsrSetFlag(CpsrSetFlag(cpsr, CarryBit, sum.carry),
                                  OverflowBit, sum.overflow),
             asserts_hold |-> TRUE]
    IN
    CASE opcode \in {0, 8} -> logical(And32(op1, op2))
      [] opcode \in {1, 9} -> logical(Xor32(op1, op2))
      [] opcode \in {2, 10} -> AluSubtract(op1, op2, cpsr)
      [] opcode = 3 -> AluSubtract(op2, op1, cpsr)
      [] opcode \in {4, 11} ->
            LET add == OverflowingAdd32(op1, op2) IN
            arith([value |-> add.value, carry |-> add.overflowed,
                   overflow |-> AddHasSignedOverflow(op1, op2, add.value)])
      [] opcode = 5 ->
            arith(AddWithCarry(op1, op2, CpsrFlag(cpsr, CarryBit)))
      [] opcode = 6 ->
            arith(AddWithCarry(op1, Not32(op2), CpsrFlag(cpsr, CarryBit)))
      [] opcode = 7 ->
            arith(AddWithCarry(op2, Not32(op1), CpsrFlag(cpsr, CarryBit)))
      [] opcode = 12 -> logical(Or32(op1, op2))
      [] opcode = 13 -> logical(op2)
      [] opcode = 14 -> logical(And32(op1, Not32(op2)))
      [] opcode = 15 -> logical(Not32(op2))

\* alu_operation(opcode, op1, op2, shifter_carry, cpsr)
AluOperation(opcode, op1, op2, shifter_carry, cpsr) ==
    LET arm == AluArm(opcode, op1, op2, shifter_carry, cpsr)
        n == CpsrSetFlag(arm.cpsr, NegativeBit, Bit(arm.value, 31) # 0)
        z == CpsrSetFlag(n, ZeroBit, arm.value = W32(0, 0))
    IN [value |-> arm.value, cpsr |-> z, asserts_hold |-> arm.asserts_hold]

(***************************************************************************)
(* cpu/mod.rs: ArmCpu                                                      *)
(***************************************************************************)
\* ArmCpu::new; abort = "none" while the program has not panicked
ArmCpuNew ==
    [regs |-> [r \in 0..15 |-> W32(0, 0)],
     cpsr |-> W32(0, 0),
     current_execute_state |-> "PipelineRefill1",
     f_out_instr |-> W32(\hFFFF, \hFFFF),
     d_out_instr |-> W32(\hFFFF, \hFFFF),
     abort |-> "none"]

\* mutant: only TST leaves rd alone
IsCompareOnly_TestOnly(opcode) == opcode = 8

\* the arm "8 | 9 | 10 | 11 => ()" of the match on opcode: TST, TEQ, CMP, CMN
IsCompareOnly(opcode) == opcode \in {8, 9, 10, 11}

\* the DataProcessingImmediate arm of step_execute_fsm
ExecuteDataProcessing(c, d) ==
    LET immv == DecodeImmediate(d.imm, d.rotate, CpsrFlag(c.cpsr, CarryBit))
        alu == AluOperation(d.opcode, c.regs[d.rn], immv.value, immv.carry,
                            c.cpsr)
    IN
    IF ~alu.asserts_hold THEN [c EXCEPT !.abort = "assertion failed"]
    ELSE IF d.rd = PC THEN [c EXCEPT !.abort = "unimplemented"]
    ELSE IF d.s THEN [c EXCEPT !.abort = "unimplemented"]
    ELSE IF IsCompareOnly(d.opcode) THEN c
    ELSE [c EXCEPT !.regs[d.rd] = alu.value]

\* mutant: a branch skips the first refill cycle
RefillAfterBranch_Short(c) ==
    [c EXCEPT !.current_execute_state = "PipelineRefill2"]

\* return ExecuteState::PipelineRefill1 of the BranchImm arm
RefillAfterBranch(c) ==
    [c EXCEPT !.current_execute_state = "PipelineRefill1"]

\* the BranchImm arm of step_execute_fsm
ExecuteBranch(c, d) ==
    LET linked == IF d.link
                  THEN [c EXCEPT !.regs[LR] =
                            WrappingSub32(c.regs[PC], W32(0, 4))]
                  ELSE c
    IN RefillAfterBranch(
        [linked EXCEPT
            !.regs[PC] = WrappingAdd32(linked.regs[PC],
                                       WordOfNat(d.offset * 4))])

\* ArmCpu::step_execute_fsm: the CPU after the execute stage, its
\* current_execute_state set to the state the function returns
StepExecuteFsm(c, current_state, in_instr) ==
    CASE current_state = "PipelineRefill1" ->
            [c EXCEPT !.regs[PC] = WrappingAdd32(c.regs[PC], W32(0, 4)),
                      !.current_execute_state = "PipelineRefill2"]
      [] current_state = "PipelineRefill2" ->
            [c EXCEPT !.regs[PC] = WrappingAdd32(c.regs[PC], W32(0, 4)),
                      !.current_execute_state = "FirstCycle"]
      [] current_state = "FirstCycle" ->
            LET d == DecodeArmInstruction(in_instr) IN
            CASE d.variant = "DataProcessingImmediate" ->
                    \* self.regs[PC].wrapping_add(4) discards its result
                    [ExecuteDataProcessing(c, d) EXCEPT
                        !.current_execute_state = "FirstCycle"]
              [] d.variant = "BranchImm" -> ExecuteBranch(c, d)
              [] OTHER -> [c EXCEPT !.abort = "unimplemented"]

\* mutant: every fetch is flagged sequential
IsSequential_Always(state) == TRUE

\* state != ExecuteState::PipelineRefill1
IsSequential(state) == state # "PipelineRefill1"

\* ArmCpu::bus_operation_for_state
BusOperationForState(c, state) ==
    Some([address |-> c.regs[PC],
          width |-> "Bit32",
          op |-> [type |-> "Read", is_instruction |-> TRUE],
          seq |-> IsSequential(state)])

\* mutant: the execute stage takes the word the decode stage is latching
ExecuteInput_Bypass(c, d_in_instr) == d_in_instr

\* let e_in_instr = self.d_out_instr: the execute stage's input is the word
\* the decode stage latched on the step before
ExecuteInput(c, d_in_instr) == c.d_out_instr

\* ArmCpu::step_fetch_or_single_instruction: the CPU and the bus after it
StepFetchOrSingleInstruction(c, b) ==
    LET d_in_instr == b.data
        e_in_instr == ExecuteInput(c, d_in_instr)
        request == BusOperationForState(c, c.current_execute_state)
        fetched == IF request # None THEN MakeRequest(b, request[1]) ELSE b
        decoded == [c EXCEPT !.d_out_instr = d_in_instr]
    IN [cpu |-> StepExecuteFsm(decoded, c.current_execute_state, e_in_instr),
        bus |-> fetched]

\* ArmCpu::step: the CPU and the bus after it
ArmCpuStep(c, b) ==
    IF ShouldCpuWait(b)
    THEN [cpu |-> c, bus |-> b]
    ELSE StepFetchOrSingleInstruction(c, b)

(***************************************************************************)
(* ppu.rs: one scanline of the LCD.  A slice of VRAM is [image, len]: the  *)
(* bytes of the named image below len.  A function that can panic returns *)
(* a record whose abort field is "none" when it did not.                   *)
(***************************************************************************)
\* the byte at address a of a VRAM image: "blank" is all zero; "tiles" has
\* 4bpp tiles below 0x4000 (transparent, solid, striped, banded, by tile
\* id modulo 4) and map entries above, which name tiles 0..3 with varying
\* palette and flip bits
VramImage(image, a) ==
    IF image = "blank" THEN 0
    ELSE IF a < 16384
    THEN CASE (a \div 32) % 4 = 0 -> 0
           [] (a \div 32) % 4 = 1 -> 17
           [] (a \div 32) % 4 = 2 -> 15
           [] OTHER -> IF (a \div 4) % 2 = 0 THEN 33 ELSE 0
    ELSE IF a % 2 = 0 THEN ((a \div 2) + (a \div 64)) % 4
    ELSE ((a \div 2) % 2) * 16 + ((a \div 8) % 4) * 4

\* entry i of the palette RAM
PalImage(i) == (i * 1057 + 31) % 32768

\* mutant: a later element of equal key replaces the first
Precedes_OrEqual(key_e, key_first) == key_e <= key_first

\* key_fn(&e) < key_fn(&first)
Precedes(key_e, key_first) == key_e < key_first

\* pick_top_two(v, key_fn): v a sequence, key_fn a function on its elements
PickTopTwo(v, key_fn) ==
    LET RECURSIVE Loop(_, _, _)
        Loop(i, first, second) ==
            IF i > Len(v) THEN [first |-> Some(first), second |-> second]
            ELSE IF Precedes(key_fn[v[i]], key_fn[first])
                 THEN Loop(i + 1, v[i], Some(first))
                 ELSE Loop(i + 1, first, second)
    IN IF Len(v) = 0 THEN [first |-> None, second |-> None]
       ELSE Loop(2, v[1], None)

\* pick_top_two_layers(layers): layers the sequence of the six
\* Option<Layer> [OBJ, BG0, BG1, BG2, BG3, backdrop]
\* (here and below, CHOOSE out \in {e : v \in {x}} : TRUE is e with v bound
\* to the value of x, as a let of the code binds it)
PickTopTwoLayers(layers) ==
    LET result(picked) ==
            IF picked.first = None
            THEN [abort |-> "unwrap on None", first |-> None, second |-> None]
            ELSE [abort |-> "none", first |-> picked.first,
                  second |-> picked.second]
        pick(somes) ==
            CHOOSE out \in
                {result(picked) :
                    picked \in {PickTopTwo(
                        [i \in 1..Len(somes) |-> somes[i][1]],
                        [l \in {somes[i][1] : i \in 1..Len(somes)} |->
                            l.priority])}} : TRUE
    IN CHOOSE out \in
        {pick(somes) :
            somes \in {SelectSeq(layers, LAMBDA o : o # None)}} : TRUE

\* render_text_bg_pixel
RenderTextBgPixel(screen_y, screen_x, bg_id, bg_regs, vram, pals) ==
    LET calc_bg_coords(screen, scroll) ==
            [tile |-> (((screen + scroll) % 65536) % 512) % 8,
             map |-> ((((screen + scroll) % 65536) % 512) \div 8) % 32,
             submap |-> ((((screen + scroll) % 65536) % 512) \div 8) \div 32]
        x == calc_bg_coords(screen_x, bg_regs.x_scroll)
        y == calc_bg_coords(screen_y, bg_regs.y_scroll)
        submap_offset ==
            CASE bg_regs.size_mode = 0 -> 0
              [] bg_regs.size_mode = 1 -> x.submap
              [] bg_regs.size_mode = 2 -> y.submap
              [] bg_regs.size_mode = 3 -> y.submap * 2 + x.submap
        screenblock_base == (bg_regs.map_base + submap_offset) * 2048
        screenblock_offset == y.map * 32 + x.map
        entry_at == screenblock_base + screenblock_offset * 2
        charmap_base == bg_regs.char_base * 16384
        flipped_tile_x(entry) ==
            IF (entry \div 1024) % 2 # 0 THEN 7 - x.tile ELSE x.tile
        flipped_tile_y(entry) ==
            IF (entry \div 2048) % 2 # 0 THEN 7 - y.tile ELSE y.tile
        charmap_offset(entry) ==
            (entry % 1024) * 64 + flipped_tile_y(entry) * 8
                + flipped_tile_x(entry)
        pixel_at(entry) ==
            IF bg_regs.palette_mode = "Pal16"
            THEN charmap_base + charmap_offset(entry) \div 2
            ELSE charmap_base + charmap_offset(entry)
        pixel(entry, read_byte) ==
            (read_byte \div Pow2((flipped_tile_x(entry) % 2) * 4)) % 16
        palette_index(entry, read_byte) ==
            IF bg_regs.palette_mode = "Pal16"
            THEN pixel(entry, read_byte) + (entry \div 4096) * 16
            ELSE read_byte
        opaque(entry, read_byte) ==
            IF bg_regs.palette_mode = "Pal16"
            THEN pixel(entry, read_byte) # 0
            ELSE read_byte # 0
        \* the layer, given the map entry and the byte of pixel data read
        result(entry, read_byte) ==
            IF \/ pixel_at(entry) >= vram.len
               \/ palette_index(entry, read_byte) >= Len(pals)
            THEN [abort |-> "index out of bounds", layer |-> None]
            ELSE [abort |-> "none",
                  layer |->
                    IF opaque(entry, read_byte)
                    THEN Some([id |-> <<"Bg", bg_id>>,
                               color |->
                                pals[palette_index(entry, read_byte) + 1],
                               priority |-> bg_regs.priority,
                               force_alpha_blend |-> FALSE])
                    ELSE None]
        read_pixel(entry) ==
            CHOOSE out \in
                {result(entry, read_byte) :
                    read_byte \in
                        {VramImage(vram.image, pixel_at(entry))}} : TRUE
    IN IF submap_offset >= 4
       THEN [abort |-> "assertion failed", layer |-> None]
       ELSE IF entry_at + 2 > vram.len
       THEN [abort |-> "index out of bounds", layer |-> None]
       ELSE CHOOSE out \in
                {read_pixel(entry) :
                    entry \in
                        {VramImage(vram.image, entry_at)
                            + 256 * VramImage(vram.image, entry_at + 1)}} : TRUE

\* the text backgrounds 0..last_bg of render_mode0_backgrounds and
\* render_mode1_backgrounds: the layers after the loop, or the first panic
RenderTextBackgrounds(last_bg, layers, screen_y, screen_x, regs, vram, pals) ==
    LET result(px) ==
            [abort |-> IF \A i \in 1..4 : px[i].abort = "none" THEN "none"
                       ELSE px[CHOOSE i \in 1..4 :
                                /\ px[i].abort # "none"
                                /\ \A j \in 1..(i - 1) :
                                        px[j].abort = "none"].abort,
             layers |-> <<layers[1], px[1].layer, px[2].layer, px[3].layer,
                          px[4].layer, layers[6]>>]
    IN CHOOSE out \in
        {result(px) :
            px \in {SubSeq([i \in 1..4 |->
                        IF i - 1 <= last_bg /\ regs.bg_layer_enabled[i - 1]
                        THEN RenderTextBgPixel(screen_y, screen_x, i - 1,
                                               regs.bg_attributes[i - 1],
                                               vram, pals)
                        ELSE [abort |-> "none", layer |-> layers[i + 1]]],
                    1, 4)}} : TRUE

\* render_mode0_backgrounds
RenderMode0Backgrounds(layers, screen_y, screen_x, regs, bg_vram, bg_pals) ==
    RenderTextBackgrounds(3, layers, screen_y, screen_x, regs, bg_vram,
                          bg_pals)

\* render_mode1_backgrounds
RenderMode1Backgrounds(layers, screen_y, screen_x, regs, bg_vram, bg_pals) ==
    RenderTextBackgrounds(1, layers, screen_y, screen_x, regs, bg_vram,
                          bg_pals)

\* render_mode3_backgrounds, render_mode4_backgrounds and
\* render_mode5_backgrounds with their render_modeN_bg_pixel: one bitmap
\* layer, stored at index BITMAP_BG_LAYER = 2 of layers
RenderBitmapBackgrounds(mode, layers, screen_y, screen_x, regs, vram, pals) ==
    LET bg_regs == regs.bg_attributes[2]
        page_base == regs.active_display_page * 40960
        off_screen == IF mode = 5
                      THEN screen_y >= 128 \/ screen_x >= 160
                      ELSE screen_y >= 160 \/ screen_x >= 240
        at == CASE mode = 3 -> (screen_y * 240 + screen_x) * 2
                [] mode = 4 -> page_base + screen_y * 240 + screen_x
                [] mode = 5 -> page_base + (screen_y * 160 + screen_x) * 2
        layer(color) == [id |-> <<"Bg", 2>>, color |-> color,
                         priority |-> bg_regs.priority,
                         force_alpha_blend |-> FALSE]
        palette_index == VramImage(vram.image, at)
    IN IF ~regs.bg_layer_enabled[2] THEN [abort |-> "none", layers |-> layers]
       ELSE IF off_screen
       THEN [abort |-> "none", layers |-> [layers EXCEPT ![3] = None]]
       ELSE IF at + (IF mode = 4 THEN 1 ELSE 2) > vram.len
       THEN [abort |-> "index out of bounds", layers |-> layers]
       ELSE IF mode = 4
       THEN [abort |-> "none",
             layers |-> [layers EXCEPT
                ![3] = IF palette_index = 0 THEN None
                       ELSE Some(layer(pals[palette_index + 1]))]]
       ELSE [abort |-> "none",
             layers |-> [layers EXCEPT
                ![3] = Some(layer(VramImage(vram.image, at)
                                  + 256 * VramImage(vram.image, at + 1)))]]

\* the body of the loop of render_lcd_line for one screen_x: the layers
\* after the backdrop is set, the top layer and its colour, or the panic
RenderLcdPixel(screen_y, screen_x, regs, bg_vram, bg_pals, bitmap_vram) ==
    LET none == <<None, None, None, None, None, None>>
        backdrop == [id |-> <<"Backdrop">>, color |-> bg_pals[1],
                     priority |-> 4, force_alpha_blend |-> FALSE]
        output(layers, picked) ==
            [abort |-> picked.abort, layers |-> layers, top |-> picked.first,
             output |-> IF picked.first = None THEN 0
                        ELSE picked.first[1].color]
        compose(layers) ==
            CHOOSE out \in
                {output(layers, picked) :
                    picked \in {PickTopTwoLayers(layers)}} : TRUE
        result(bgs) ==
            IF bgs.abort # "none"
            THEN [abort |-> bgs.abort, layers |-> bgs.layers, top |-> None,
                  output |-> 0]
            ELSE CHOOSE out \in
                    {compose(layers) :
                        layers \in
                            {[bgs.layers EXCEPT ![6] = Some(backdrop)]}} : TRUE
    IN CHOOSE out \in
        {result(bgs) :
            bgs \in
                {CASE regs.video_mode = 0 ->
                        RenderMode0Backgrounds(none, screen_y, screen_x, regs,
                                               bg_vram, bg_pals)
                   [] regs.video_mode = 1 ->
                        RenderMode1Backgrounds(none, screen_y, screen_x, regs,
                                               bg_vram, bg_pals)
                   [] regs.video_mode = 2 ->
                        [abort |-> "unimplemented", layers |-> none]
                   [] regs.video_mode \in {3, 4, 5} ->
                        RenderBitmapBackgrounds(regs.video_mode, none,
                                                screen_y, screen_x, regs,
                                                bitmap_vram, bg_pals)
                   [] OTHER -> [abort |-> "none", layers |-> none]}} : TRUE

\* render_lcd_line(screen_y, regs, vram, pals): the line buffer, with the
\* layers and the top layer of every pixel, or the first panic
RenderLcdLine(screen_y, regs, vram, pals) ==
    LET result(px) ==
            IF \E i \in 1..240 : px[i].abort # "none"
            THEN [abort |-> px[CHOOSE i \in 1..240 :
                                /\ px[i].abort # "none"
                                /\ \A j \in 1..(i - 1) :
                                        px[j].abort = "none"].abort,
                  buf |-> None, layers |-> None, top |-> None]
            ELSE [abort |-> "none",
                  buf |->
                    Some([screen_x \in 0..239 |-> px[screen_x + 1].output]),
                  layers |->
                    Some([screen_x \in 0..239 |-> px[screen_x + 1].layers]),
                  top |->
                    Some([screen_x \in 0..239 |-> px[screen_x + 1].top[1]])]
        line(bg_pals) ==
            CHOOSE out \in
                {result(px) :
                    px \in {SubSeq([i \in 1..240 |->
                                RenderLcdPixel(screen_y, i - 1, regs,
                                    [image |-> vram.image, len |-> 64 * 1024],
                                    bg_pals,
                                    [image |-> vram.image,
                                     len |-> 80 * 1024])],
                            1, 240)}} : TRUE
    IN CHOOSE out \in
        {line(bg_pals) : bg_pals \in {SubSeq(pals, 1, 16 * 16)}} : TRUE

\* LcdControllerRegs::write(address, data) with write_dispcnt, write_bgcnt,
\* write_bghofs and write_bgvofs; address and data are given as naturals
LcdControllerRegsWrite(regs, address, data) ==
    LET data16 == data % 65536
        bits(base, limit) == (data16 \div Pow2(base)) % Pow2(limit - base + 1)
        write_dispcnt ==
            [regs EXCEPT
                !.video_mode = bits(0, 2),
                !.active_display_page = bits(4, 4),
                !.forced_blank_enabled = bits(7, 7) # 0,
                !.bg_layer_enabled =
                    [bg \in 0..3 |-> bits(8 + bg, 8 + bg) # 0]]
        write_bgcnt(i) ==
            [regs EXCEPT
                !.bg_attributes[i] =
                    [@ EXCEPT
                        !.priority = bits(0, 1),
                        !.char_base = bits(2, 3),
                        !.palette_mode =
                            IF bits(7, 7) = 0 THEN "Pal16" ELSE "Pal256",
                        !.map_base = bits(8, 12),
                        !.size_mode = bits(14, 15)]]
        write_bghofs(i) ==
            [regs EXCEPT !.bg_attributes[i].x_scroll = bits(0, 8)]
        write_bgvofs(i) ==
            [regs EXCEPT !.bg_attributes[i].y_scroll = bits(0, 8)]
        offset == address % 4096
    IN CASE offset = 0 -> write_dispcnt
         [] offset \in {8, 10, 12, 14} -> write_bgcnt((offset - 8) \div 2)
         [] offset \in {16, 20, 24, 28} -> write_bghofs((offset - 16) \div 4)
         [] offset \in {18, 22, 26, 30} -> write_bgvofs((offset - 18) \div 4)
         [] OTHER -> regs

(***************************************************************************)
(* The scheduler driven by arbitrary tasks: every resume may complete or   *)
(* yield any cycle count in 0..MaxYield.                                   *)
(***************************************************************************)
\* history of ArmCpu::step: the number of calls (steps) and whether the
\* latest returned at should_cpu_wait (waited); and of the latest call that
\* did not: r15 as its execute stage saw it (r15), whether that stage was in
\* FirstCycle and so executed its input (executed), the address the input
\* was fetched from (e_addr) and the one the word latched by the decode
\* stage was fetched from (d_addr), the address it requested (fetch) and the
\* one requested by the call before it (prev_fetch), whether it was the
\* first after reset or after a branch (first), whether it executed a
\* branch (branched), the target of the latest branch (target) and the
\* number of calls since that branch, counted up to 3 (since_branch), the
\* number of such calls since reset, counted up to 4 (runs), the word it
\* read from bus.data (din), the one the call before it read (prev_din),
\* and the word its execute stage was given and the CPU before the call
\* (e_instr, e_cpu)
NoCpuTrace ==
    [steps |-> 0, waited |-> FALSE, ran |-> FALSE, r15 |-> W32(0, 0),
     executed |-> FALSE, e_addr |-> None, d_addr |-> None,
     fetch |-> None, prev_fetch |-> None, first |-> FALSE,
     branched |-> FALSE, target |-> None, since_branch |-> 3,
     runs |-> 0, din |-> None, prev_din |-> None, e_instr |-> None,
     e_cpu |-> None]

\* history of the bus master and of the memory task: the number of master
\* steps that made a request (requests), the cycle of the latest of them
\* (issued_at), whether it called make_request twice (doubled), the word the
\* master put on bus.data for it (wdata), the request whose access the
\* memory task has completed since (done), the number of times, counted up
\* to 2, the memory task has found a request on the bus at the top of its
\* loop since (taken), and per RAM the word of the latest completed 32-bit
\* write to word 0 if no narrower write to that word was completed after
\* it (written)
NoMemTrace ==
    [requests |-> 0, issued_at |-> 0, doubled |-> FALSE,
     wdata |-> W32(0, 0), done |-> None, taken |-> 0,
     written |-> [region \in {2, 3} |-> None]]

\* no pure function is under check
NoCalc == [op |-> "none", input |-> None, output |-> None]

Init ==
    /\ SchedulerNew
    /\ flag = FALSE
    /\ bus = BusDefault
    /\ cpu = ArmCpuNew
    /\ cpu_trace = NoCpuTrace
    /\ \E unlocked \in BOOLEAN : mem = MemoryNew(unlocked)
    /\ mem_trace = NoMemTrace
    /\ calc = NoCalc

\* the task objects handed to add_new_task, in the order of the calls
TaskNames == <<"T1", "T2", "T3", "T4", "T5", "T6", "T7", "T8">>

AddTask ==
    /\ added < MaxTasks
    /\ added < Len(TaskNames)
    /\ AddNewTask(TaskNames[added + 1])
    /\ UNCHANGED envVars

RunFor ==
    /\ \E cycles \in 0..MaxCycles :
        /\ current_time + cycles <= MaxTime
        /\ RunForCall(cycles)
    /\ UNCHANGED envVars

ResumeYields ==
    /\ \E i \in 1..Len(scheduled_tasks), cycles \in 0..MaxYield :
        Resume(i, Yielded(cycles))
    /\ UNCHANGED envVars

ResumeCompletes ==
    /\ \E i \in 1..Len(scheduled_tasks) : Resume(i, Complete)
    /\ UNCHANGED envVars

Next ==
    \/ AddTask
    \/ RunFor
    \/ ResumeYields
    \/ ResumeCompletes
    \/ ResumePanics
    \/ RunForReturn

Spec == Init /\ [][Next]_vars

(***************************************************************************)
(* Scenario: tasks A and B added in that order, each yielding exactly one  *)
(* cycle at every resume (the shape of the CPU and memory tasks, and of    *)
(* big_task1(1) in bench_task_scheduler).                                  *)
(***************************************************************************)
TaskA == "A"

TaskB == "B"

AddInOrder ==
    /\ added < 2
    /\ AddNewTask(IF added = 0 THEN TaskA ELSE TaskB)
    /\ UNCHANGED envVars

RunForAB ==
    /\ added = 2
    /\ \E cycles \in 0..ScenarioMaxCycles :
        /\ current_time + cycles <= ScenarioMaxTime
        /\ RunForCall(cycles)
    /\ UNCHANGED envVars

ResumeTick ==
    /\ \E i \in 1..Len(scheduled_tasks) : Resume(i, Yielded(1))
    /\ UNCHANGED envVars

NextAB ==
    \/ AddInOrder
    \/ RunForAB
    \/ ResumeTick
    \/ RunForReturn

SpecAB == Init /\ [][NextAB]_vars

(***************************************************************************)
(* Scenario: flag waiting.  The waiter yields zero cycles until the flag   *)
(* is set and one cycle per resume afterwards; the setter sets the flag    *)
(* when resumed and yields one cycle.  Both are added, in either order,    *)
(* before run_for is called.                                               *)
(***************************************************************************)
Waiter == "waiter"

Setter == "setter"

ResumedObj(i) == active_tasks[scheduled_tasks[i].task_id + 1]

AddWaiterOrSetter ==
    /\ \E obj \in {Waiter, Setter} :
        /\ \A k \in 1..Len(active_tasks) : active_tasks[k] # obj
        /\ AddNewTask(obj)
    /\ UNCHANGED envVars

RunForFlag ==
    /\ Len(active_tasks) = 2
    /\ \E cycles \in 1..ScenarioMaxCycles :
        /\ current_time + cycles <= ScenarioMaxTime
        /\ RunForCall(cycles)
    /\ UNCHANGED envVars

ResumeWaiter ==
    /\ \E i \in 1..Len(scheduled_tasks) :
        /\ VecHas(active_tasks, scheduled_tasks[i].task_id)
        /\ ResumedObj(i) = Waiter
        /\ Resume(i, Yielded(IF flag THEN 1 ELSE 0))
    /\ UNCHANGED envVars

ResumeSetter ==
    /\ \E i \in 1..Len(scheduled_tasks) :
        /\ VecHas(active_tasks, scheduled_tasks[i].task_id)
        /\ ResumedObj(i) = Setter
        /\ Resume(i, Yielded(1))
    /\ flag' = TRUE
    /\ UNCHANGED <<bus, cpu, cpu_trace, memVars, calc>>

RunForLoop ==
    \/ ResumeWaiter
    \/ ResumeSetter
    \/ RunForReturn

NextFlag ==
    \/ AddWaiterOrSetter
    \/ RunForFlag
    \/ ResumeWaiter
    \/ ResumeSetter
    \/ RunForReturn

\* run_for is ordinary sequential code: once called, its loop keeps running.
SpecFlagFair == Init /\ [][NextFlag]_vars /\ WF_vars(RunForLoop)

(***************************************************************************)
(* The CPU stepped against a bus whose other side is arbitrary: between    *)
(* CPU steps the slave may put any of InstrWords on the data latch (as the *)
(* memory task's bus.data.set and the helper of the CPU tests do) and set  *)
(* or clear busy, and a DMA master may set or clear dma_active.  A panic    *)
(* ends the program, so nothing moves once the CPU has aborted.            *)
(***************************************************************************)
InstrWords ==
    { W32(\hE3A0, \h0302),    \* mov r0, #0x08000000
      W32(\hE281, \h1001),    \* add r1, r1, #1
      W32(\hEA00, \h0006),    \* b +6 words
      W32(\hFFFF, \hFFFF) }   \* the latch's reset value; decodes to Unknown

\* the history after a call of ArmCpu::step that took the CPU and the bus
\* from (cpu, bus) to r
CpuTraceAfter(r) ==
    IF bus.busy \/ bus.dma_active
    THEN [cpu_trace EXCEPT !.steps = cpu_trace.steps + 1,
                           !.waited = TRUE]
    ELSE LET executes == cpu.current_execute_state = "FirstCycle"
             branches ==
                /\ executes
                /\ DecodeArmInstruction(cpu.d_out_instr).variant
                     = "BranchImm"
         IN [steps |-> cpu_trace.steps + 1,
             waited |-> FALSE,
             ran |-> TRUE,
             r15 |-> cpu.regs[PC],
             executed |-> executes,
             e_addr |-> cpu_trace.d_addr,
             d_addr |-> IF bus.request = None THEN None
                        ELSE Some(bus.request[1].address),
             fetch |-> IF r.bus.request = None THEN None
                       ELSE Some(r.bus.request[1].address),
             prev_fetch |-> cpu_trace.fetch,
             first |-> ~cpu_trace.ran \/ cpu_trace.branched,
             branched |-> branches,
             target |-> IF branches THEN Some(r.cpu.regs[PC])
                        ELSE cpu_trace.target,
             since_branch |->
                IF branches THEN 0
                ELSE IF cpu_trace.since_branch < 3
                     THEN cpu_trace.since_branch + 1 ELSE 3,
             runs |-> IF cpu_trace.runs < 4
                      THEN cpu_trace.runs + 1 ELSE 4,
             din |-> Some(bus.data),
             prev_din |-> cpu_trace.din,
             e_instr |-> Some(ExecuteInput(cpu, bus.data)),
             e_cpu |-> Some(cpu)]

CpuStep ==
    /\ cpu.abort = "none"
    /\ cpu_trace.steps < MaxCpuSteps
    /\ \E r \in {ArmCpuStep(cpu, bus)} :
        /\ cpu' = r.cpu
        /\ bus' = r.bus
        /\ cpu_trace' = CpuTraceAfter(r)
    /\ UNCHANGED <<schedVars, flag, memVars, calc>>

BusDataSet ==
    /\ cpu.abort = "none"
    /\ cpu_trace.steps < MaxCpuSteps
    /\ \E val \in InstrWords : bus' = [bus EXCEPT !.data = val]
    /\ UNCHANGED <<schedVars, flag, cpu, cpu_trace, memVars, calc>>

BusBusySet ==
    /\ cpu.abort = "none"
    /\ cpu_trace.steps < MaxCpuSteps
    /\ bus' = [bus EXCEPT !.busy = ~bus.busy]
    /\ UNCHANGED <<schedVars, flag, cpu, cpu_trace, memVars, calc>>

BusDmaActiveSet ==
    /\ cpu.abort = "none"
    /\ cpu_trace.steps < MaxCpuSteps
    /\ bus' = [bus EXCEPT !.dma_active = ~bus.dma_active]
    /\ UNCHANGED <<schedVars, flag, cpu, cpu_trace, memVars, calc>>

NextCpu ==
    \/ CpuStep
    \/ BusDataSet
    \/ BusBusySet
    \/ BusDmaActiveSet

SpecCpu == Init /\ [][NextCpu]_vars

(***************************************************************************)
(* The CPU stepped as its unit tests step it: every call of ArmCpu::step   *)
(* is followed by bus.data.set(val), the word the memory returns for the   *)
(* fetch the call issued.  Nothing sets busy or dma_active.                *)
(***************************************************************************)
TestWords ==
    { W32(\hE3A0, \h0302),    \* mov r0, #0x08000000
      W32(\h03A0, \h0302),    \* moveq r0, #0x08000000
      W32(\hEA00, \h0006),    \* b with offset field 6
      W32(\hEAFF, \hFFFE),    \* b with offset field 0xFFFFFE (-2 words)
      W32(\hE320, \h2001),    \* opcode 9 (TEQ), s clear, rd 2: r0 ^ 1
      W32(\hE351, \h00EA),    \* cmp r1, #234
      W32(\hFFFF, \hFFFF) }   \* decodes to UnknownInstruction

\* the helper step(cpu, bus, ..., val) of the tests, without its assertion
TestStep ==
    /\ cpu.abort = "none"
    /\ cpu_trace.steps < MaxCpuSteps
    /\ \E r \in {ArmCpuStep(cpu, bus)} :
        /\ cpu' = r.cpu
        /\ cpu_trace' = CpuTraceAfter(r)
        /\ \E val \in TestWords : bus' = [r.bus EXCEPT !.data = val]
    /\ UNCHANGED <<schedVars, flag, memVars, calc>>

NextCpuTest == TestStep

SpecCpuTest == Init /\ [][NextCpuTest]_vars

(***************************************************************************)
(* One scanline rendered.  The registers are in a state their write        *)
(* functions can produce: a video mode 0..7, any background enabled or     *)
(* not, priorities 0..3; the backgrounds are scrolled apart so that they   *)
(* differ in where they are opaque.  Every mode is rendered with all       *)
(* backgrounds disabled, and with the backgrounds it can show enabled.     *)
(***************************************************************************)
PpuInputs ==
    { [screen_y |-> screen_y,
       regs |-> [video_mode |-> video_mode,
                 active_display_page |-> 0,
                 forced_blank_enabled |-> FALSE,
                 bg_layer_enabled |-> [bg \in 0..3 |-> bg \in enabled],
                 bg_attributes |->
                    [bg \in 0..3 |->
                        [priority |-> priority[bg + 1],
                         char_base |-> 0,
                         palette_mode |-> palette_mode,
                         map_base |-> 8,
                         size_mode |-> 0,
                         x_scroll |-> 9 * bg,
                         y_scroll |-> bg]]],
       vram |-> [image |-> image, len |-> 96 * 1024],
       pals |-> [i \in 1..512 |-> PalImage(i - 1)]] :
        <<video_mode, enabled, priority>> \in
            ((0..7) \X {{}}
                \X {<<0, 1, 2, 3>>, <<3, 2, 1, 0>>, <<1, 1, 0, 0>>})
            \cup ({0} \X {{0, 1, 2, 3}}
                \X {<<0, 1, 2, 3>>, <<3, 2, 1, 0>>, <<1, 1, 0, 0>>})
            \cup ({0, 1} \X {{1, 3}} \X {<<3, 2, 1, 0>>})
            \cup ({3, 4, 5} \X {{2}} \X {<<0, 1, 2, 3>>})
            \cup ({2, 6, 7} \X {{0, 1, 2, 3}} \X {<<0, 1, 2, 3>>}),
        <<screen_y, palette_mode, image>> \in
            { <<0, "Pal16", "tiles">>, <<159, "Pal256", "tiles">>,
              <<0, "Pal16", "blank">> } }

InitPpu ==
    /\ SchedulerNew
    /\ flag = FALSE
    /\ bus = BusDefault
    /\ cpu = ArmCpuNew
    /\ cpu_trace = NoCpuTrace
    /\ mem = MemoryNew(FALSE)
    /\ mem_trace = NoMemTrace
    /\ \E input \in PpuInputs :
        calc = [op |-> "render", input |-> input, output |-> None]

\* a call of render_lcd_line
Render ==
    /\ calc.op = "render"
    /\ calc.output = None
    /\ \E line \in {RenderLcdLine(calc.input.screen_y, calc.input.regs,
                                   calc.input.vram, calc.input.pals)} :
        calc' = [calc EXCEPT !.output = Some(line)]
    /\ UNCHANGED <<schedVars, flag, bus, cpu, cpu_trace, memVars>>

NextPpu == Render

SpecPpu == InitPpu /\ [][NextPpu]_vars

(***************************************************************************)
(* The LCD registers written and then one scanline rendered.  The          *)
(* registers start as LcdControllerRegs::new() leaves them; each write     *)
(* puts one of a few values into DISPCNT, BG0CNT, BG0HOFS or BG0VOFS (or   *)
(* goes to a register that is not supported); the line is rendered from    *)
(* the tiles image.                                                        *)
(***************************************************************************)
InitLcd ==
    /\ SchedulerNew
    /\ flag = FALSE
    /\ bus = BusDefault
    /\ cpu = ArmCpuNew
    /\ cpu_trace = NoCpuTrace
    /\ mem = MemoryNew(FALSE)
    /\ mem_trace = NoMemTrace
    /\ \E screen_y \in {0, 159} :
        calc = [op |-> "render",
                input |->
                    [screen_y |-> screen_y,
                     regs |->
                        [video_mode |-> 0,
                         active_display_page |-> 0,
                         forced_blank_enabled |-> FALSE,
                         bg_layer_enabled |-> [bg \in 0..3 |-> FALSE],
                         bg_attributes |->
                            [bg \in 0..3 |->
                                [priority |-> 0,
                                 char_base |-> 0,
                                 palette_mode |-> "Pal16",
                                 map_base |-> 0,
                                 size_mode |-> 0,
                                 x_scroll |-> 0,
                                 y_scroll |-> 0]]],
                     vram |-> [image |-> "tiles", len |-> 96 * 1024],
                     pals |-> [i \in 1..512 |-> PalImage(i - 1)]],
                output |-> None]

\* a call of LcdControllerRegs::write before the line is rendered
LcdWrite ==
    /\ calc.op = "render"
    /\ calc.output = None
    /\ \E w \in { <<67108864, 256>>, <<67108864, 258>>, <<67108864, 1027>>,
                  <<67108864, 3841>>,
                  <<67108872, 57088>>, <<67108872, 12>>, <<67108872, 2184>>,
                  <<67108880, 65535>>, <<67108882, 256>>,
                  <<67108868, 8>> } :
        calc' = [calc EXCEPT
                    !.input.regs = LcdControllerRegsWrite(@, w[1], w[2])]
    /\ UNCHANGED <<schedVars, flag, bus, cpu, cpu_trace, memVars>>

NextLcd ==
    \/ LcdWrite
    \/ Render

SpecLcd == InitLcd /\ [][NextLcd]_vars

(***************************************************************************)
(* alu_operation applied once.  The operands are the words at and next to  *)
(* the ends of the signed and unsigned ranges; the CPSR has the carry flag  *)
(* clear or set.                                                           *)
(***************************************************************************)
InitAlu ==
    /\ SchedulerNew
    /\ flag = FALSE
    /\ bus = BusDefault
    /\ cpu = ArmCpuNew
    /\ cpu_trace = NoCpuTrace
    /\ mem = MemoryNew(FALSE)
    /\ mem_trace = NoMemTrace
    /\ \E opcode \in 0..15, shifter_carry \in BOOLEAN,
          op1, op2 \in { W32(0, 0), W32(0, 1), W32(\h7FFF, \hFFFF),
                         W32(\h8000, 0), W32(\hFFFF, \hFFFF) },
          cpsr \in { W32(0, 0), W32(\h2000, 0) } :
        calc = [op |-> "alu",
                input |-> [opcode |-> opcode, op1 |-> op1, op2 |-> op2,
                           shifter_carry |-> shifter_carry, cpsr |-> cpsr],
                output |-> None]

\* a call of alu_operation
AluCall ==
    /\ calc.op = "alu"
    /\ calc.output = None
    /\ \E r \in {AluOperation(calc.input.opcode, calc.input.op1,
                              calc.input.op2, calc.input.shifter_carry,
                              calc.input.cpsr)} :
        calc' = [calc EXCEPT !.output = Some(r)]
    /\ UNCHANGED <<schedVars, flag, bus, cpu, cpu_trace, memVars>>

NextAlu == AluCall

SpecAlu == InitAlu /\ [][NextAlu]_vars

(***************************************************************************)
(* The decoder applied to one instruction word.  The word is given as it   *)
(* is ("word"), or as the fields of a data-processing immediate ("dp") or  *)
(* of a load/store immediate ("ls") instruction encoded into its pattern.  *)
(***************************************************************************)
\* the patterns in the order decode_arm_instruction tries them, each with
\* the variant it returns
DecoderPatterns ==
    << [format |-> PatBX, variant |-> "BranchAndExchangeReg"],
       [format |-> PatMSR, variant |-> "MoveToStatusReg"],
       [format |-> PatLoadStoreHalf, variant |-> "LoadStoreHalfImmOffset"],
       [format |-> PatDataProcessingImm,
        variant |-> "DataProcessingImmediate"],
       [format |-> PatLoadStoreImm, variant |-> "LoadStoreImmOffset"],
       [format |-> PatLoadStoreMultiple, variant |-> "LoadStoreMultiple"],
       [format |-> PatBranchImm, variant |-> "BranchImm"] >>

\* cccc 001o ooos nnnn dddd rrrr iiii iiii
EncodeDataProcessingImm(f) ==
    W32(f.cond * 4096 + 512 + f.opcode * 32 + (IF f.s THEN 16 ELSE 0) + f.rn,
        f.rd * 4096 + f.rotate * 256 + f.imm)

\* cccc 010P UBWL nnnn dddd iiii iiii iiii
EncodeLoadStoreImm(f) ==
    LET b(x) == IF x THEN 1 ELSE 0 IN
    W32(f.cond * 4096 + 1024 + b(f.indexing_p) * 256 + b(f.imm_add) * 128
            + b(f.byte) * 64 + b(f.indexing_w) * 32 + b(f.load) * 16 + f.rn,
        f.rd * 4096 + f.imm)

\* the words of the decoder's tests
DecodeTestWords ==
    { W32(\hE3A0, \h0302),    \* decode_mov_imm
      W32(\hE351, \h00EA),    \* decode_cmp_imm
      W32(\hE59F, \hD0B8),    \* decode_ldr
      W32(\hE5D0, \h1003),    \* decode_ldrb
      W32(\hE580, \h0208),    \* decode_str
      W32(\hEA00, \h0006),    \* decode_b_imm
      W32(\hE12F, \hFF10),    \* decode_bx_reg
      W32(\hE129, \hF000),    \* decode_msr
      W32(\hFFFF, \hFFFF),
      W32(0, 0) }

\* for every pattern: the words that have its literal bits, and the words
\* that differ from those in one literal bit, the other bits filled in four
\* ways
DecodePatternWords ==
    LET fills == { [i \in 0..31 |-> 0], [i \in 0..31 |-> 1],
                   [i \in 0..31 |-> i % 2], [i \in 0..31 |-> (i + 1) % 2] }
        word(format, fill, flipped) ==
            WordOfBits([i \in 0..31 |->
                IF format[32 - i] \in {0, 1}
                THEN IF 32 - i = flipped THEN 1 - format[32 - i]
                     ELSE format[32 - i]
                ELSE fill[i]])
    IN { word(DecoderPatterns[p].format, fill, k) :
            p \in DOMAIN DecoderPatterns, fill \in fills, k \in 0..32 }

DecodeInputs ==
    { [kind |-> "word", fields |-> None, instr |-> w] :
        w \in DecodeTestWords \cup DecodePatternWords }
    \cup
    { [kind |-> "dp", fields |-> Some(f),
       instr |-> EncodeDataProcessingImm(f)] :
        f \in [cond : {0, 14, 15}, opcode : {0, 10, 13, 15}, s : BOOLEAN,
               rn : {0, 1, 15}, rd : {0, 13, 15}, rotate : {0, 3, 15},
               imm : {0, 2, 234, 255}] }
    \cup
    { [kind |-> "ls", fields |-> Some(f), instr |-> EncodeLoadStoreImm(f)] :
        f \in [cond : {0, 14}, indexing_p : BOOLEAN, imm_add : BOOLEAN,
               byte : BOOLEAN, indexing_w : BOOLEAN, load : BOOLEAN,
               rn : {0, 15}, rd : {1, 13}, imm : {0, 3, 184, 4095}] }

InitDecode ==
    /\ SchedulerNew
    /\ flag = FALSE
    /\ bus = BusDefault
    /\ cpu = ArmCpuNew
    /\ cpu_trace = NoCpuTrace
    /\ mem = MemoryNew(FALSE)
    /\ mem_trace = NoMemTrace
    /\ \E input \in DecodeInputs :
        calc = [op |-> "decode", input |-> input, output |-> None]

\* DecodedArmInstruction::decode_arm_instruction(instr)
Decode ==
    /\ calc.op = "decode"
    /\ calc.output = None
    /\ calc' = [calc EXCEPT
                    !.output = Some(DecodeArmInstruction(calc.input.instr))]
    /\ UNCHANGED <<schedVars, flag, bus, cpu, cpu_trace, memVars>>

NextDecode == Decode

SpecDecode == InitDecode /\ [][NextDecode]_vars

(***************************************************************************)
(* Scenario: a bus master and the memory task under the scheduler.  The    *)
(* master is added first and stands where the CPU task stands: at every    *)
(* resume it does nothing if should_cpu_wait() (as ArmCpu::step), else it  *)
(* makes a request, putting the word on bus.data if it is a write, and it  *)
(* yields one cycle.  After MaxRequests requests it makes no further one.  *)
(* A master that breaks the contract calls make_request twice in a step.   *)
(***************************************************************************)
Master == "master"

MemoryTask == "memory"

ReadOp(is_instruction) == [type |-> "Read", is_instruction |-> is_instruction]

WriteOp == [type |-> "Write", is_instruction |-> FALSE]

Request(address, width, op) ==
    [address |-> address, width |-> width, op |-> op, seq |-> FALSE]

\* the requests the master chooses from
MasterRequests ==
    { Request(W32(\h0000, \h0004), "Bit32", ReadOp(TRUE)),
      Request(W32(\h0000, \h4000), "Bit32", ReadOp(TRUE)),
      Request(W32(\h0800, \h0000), "Bit32", ReadOp(TRUE)),
      Request(W32(\h0000, \h0000), "Bit32", ReadOp(FALSE)),
      Request(W32(\h0000, \h0004), "Bit16", ReadOp(FALSE)),
      Request(W32(\h0200, \h0000), "Bit32", WriteOp),
      Request(W32(\h0200, \h0000), "Bit32", ReadOp(FALSE)),
      Request(W32(\h0200, \h0002), "Bit16", WriteOp),
      Request(W32(\h0200, \h0002), "Bit16", ReadOp(FALSE)),
      Request(W32(\h0200, \h0001), "Bit8", ReadOp(FALSE)),
      Request(W32(\h0300, \h0000), "Bit32", WriteOp),
      Request(W32(\h0300, \h0000), "Bit32", ReadOp(FALSE)),
      Request(W32(\h0300, \h0002), "Bit16", WriteOp),
      Request(W32(\h0300, \h0002), "Bit16", ReadOp(FALSE)),
      Request(W32(\h0300, \h0001), "Bit8", ReadOp(FALSE)) }

\* the two requests of a master that calls make_request twice in a step
FirstRequest == Request(W32(\h0300, \h0000), "Bit32", ReadOp(FALSE))

SecondRequest == Request(W32(\h0200, \h0000), "Bit32", ReadOp(FALSE))

\* the words the master writes
WriteWords == { W32(\h1234, \hABCD), W32(\h00EE, \h5577) }

AddMasterThenMemory ==
    /\ added < 2
    /\ AddNewTask(IF added = 0 THEN Master ELSE MemoryTask)
    /\ UNCHANGED envVars

RunForMem ==
    /\ added = 2
    /\ current_time < MemMaxTime
    /\ RunForCall(IF current_time + FrameCycles <= MemMaxTime
                  THEN FrameCycles ELSE MemMaxTime - current_time)
    /\ UNCHANGED envVars

\* the master's step when the bus is free: one make_request, or two
MasterRequests12(requests, now) ==
    /\ mem_trace.requests < MaxRequests
    /\ \E request \in requests, twice \in BOOLEAN :
       \E data \in IF request.op.type = "Write" THEN WriteWords
                    ELSE {bus.data} :
        /\ twice => request = SecondRequest
        /\ LET put == [bus EXCEPT !.data = data]
               first == IF twice THEN FirstRequest ELSE request
           IN bus' = MakeRequest(MakeRequest(put, first), request)
        /\ mem_trace' = [mem_trace EXCEPT
                            !.requests = mem_trace.requests + 1,
                            !.issued_at = now,
                            !.doubled = twice,
                            !.wdata = data,
                            !.done = None,
                            !.taken = 0]

\* one resume of a master that chooses from requests
MasterStep(requests) ==
    \E i \in 1..Len(scheduled_tasks) :
        /\ VecHas(active_tasks, scheduled_tasks[i].task_id)
        /\ ResumedObj(i) = Master
        /\ Resume(i, Yielded(1))
        /\ IF ShouldCpuWait(bus) \/ mem_trace.requests >= MaxRequests
           THEN UNCHANGED <<bus, mem_trace>>
           ELSE MasterRequests12(requests, scheduled_tasks[i].scheduled_at)

ResumeMaster ==
    /\ MasterStep(MasterRequests)
    /\ UNCHANGED <<flag, cpu, cpu_trace, mem, calc>>

\* written after the memory task completed the access of request
WrittenAfter(written, request, wdata) ==
    IF request.op.type # "Write" \/ RegionOf(request.address) \notin {2, 3}
    THEN written
    ELSE [written EXCEPT ![RegionOf(request.address)] =
            IF request.width = "Bit32" /\ request.address.lo % 4 = 0
            THEN Some(wdata) ELSE None]

ResumeMemory ==
    /\ pc = "loop"
    /\ \E i \in 1..Len(scheduled_tasks) :
        /\ VecHas(active_tasks, scheduled_tasks[i].task_id)
        /\ ResumedObj(i) = MemoryTask
        /\ \E r \in {MemoryRunTask(mem, bus)} :
            /\ r.memory.position # "panicked"
            /\ Resume(i, Yielded(r.cycles))
            /\ mem' = r.memory
            /\ bus' = r.bus
            /\ mem_trace' = [mem_trace EXCEPT
                    !.done = r.served,
                    !.taken =
                        IF mem.position = "loop" /\ bus.request # None
                        THEN (IF @ < 2 THEN @ + 1 ELSE 2) ELSE @,
                    !.written =
                        IF r.served = None THEN mem_trace.written
                        ELSE WrittenAfter(mem_trace.written, r.served[1],
                                          mem_trace.wdata)]
    /\ UNCHANGED <<flag, cpu, cpu_trace, calc>>

MemLoop ==
    \/ ResumeMaster
    \/ ResumeMemory
    \/ RunForReturn

NextMem ==
    \/ AddMasterThenMemory
    \/ RunForMem
    \/ ResumeMaster
    \/ ResumeMemory
    \/ RunForReturn

SpecMem == Init /\ [][NextMem]_vars

\* run_for's loop keeps running once called, and the host keeps calling
\* run_for
SpecMemFair ==
    Init /\ [][NextMem]_vars /\ WF_vars(MemLoop) /\ WF_vars(RunForMem)

(***************************************************************************)
(* The same scenario with the two tasks added in either order.             *)
(***************************************************************************)
AddMasterOrMemory ==
    /\ \E obj \in {Master, MemoryTask} :
        /\ \A k \in 1..Len(active_tasks) : active_tasks[k] # obj
        /\ AddNewTask(obj)
    /\ UNCHANGED envVars

NextMemOrder ==
    \/ AddMasterOrMemory
    \/ RunForMem
    \/ ResumeMaster
    \/ ResumeMemory
    \/ RunForReturn

SpecMemOrderFair ==
    Init /\ [][NextMemOrder]_vars /\ WF_vars(MemLoop) /\ WF_vars(RunForMem)

(***************************************************************************)
(* Scenario: one scheduler history run twice.  Tasks A and B are           *)
(* deterministic: what a task returns depends only on how often it has     *)
(* been resumed.  A fresh scheduler gets both tasks and runs run_for(a)    *)
(* and then run_for(b); what happened is recorded, and a second fresh      *)
(* scheduler gets the same two tasks and runs run_for(a + b).  calc holds  *)
(* the scenario: input = the two scripts, a and b; output = the calls made *)
(* so far (mode, calls), each task's resume count, the log of resumes of   *)
(* the present scheduler, and the record of the first one (split).         *)
(***************************************************************************)
\* a task's script: the cycle counts it yields, in turn and repeated, and
\* the resume at which it completes (0: never)
ComposeScripts ==
    { [yields |-> <<1>>, completes_at |-> 0],
      [yields |-> <<2>>, completes_at |-> 0],
      [yields |-> <<1, 2>>, completes_at |-> 0],
      [yields |-> <<0, 1>>, completes_at |-> 0],
      [yields |-> <<1>>, completes_at |-> 2],
      [yields |-> <<2, 1>>, completes_at |-> 3] }

\* what a task with this script returns at its k-th resume
ScriptResult(script, k) ==
    IF script.completes_at = k THEN Complete
    ELSE Yielded(script.yields[((k - 1) % Len(script.yields)) + 1])

ComposeStart(mode, split) ==
    [mode |-> mode, calls |-> 0,
     count |-> [obj \in {TaskA, TaskB} |-> 0],
     log |-> <<>>, split |-> split]

InitCompose ==
    /\ SchedulerNew
    /\ flag = FALSE
    /\ bus = BusDefault
    /\ cpu = ArmCpuNew
    /\ cpu_trace = NoCpuTrace
    /\ mem = MemoryNew(FALSE)
    /\ mem_trace = NoMemTrace
    /\ \E script_a \in ComposeScripts, script_b \in ComposeScripts :
       \E a \in 1..ScenarioMaxCycles, b \in 1..ScenarioMaxCycles :
        calc = [op |-> "compose",
                input |-> [script |-> [obj \in {TaskA, TaskB} |->
                                IF obj = TaskA THEN script_a ELSE script_b],
                           a |-> a, b |-> b],
                output |-> ComposeStart("split", None)]

\* the host calls run_for: (a) and then (b) on the first scheduler,
\* (a + b) on the second
ComposeRunFor ==
    /\ added = 2
    /\ \/ /\ calc.output.mode = "split"
          /\ calc.output.calls < 2
          /\ RunForCall(IF calc.output.calls = 0 THEN calc.input.a
                        ELSE calc.input.b)
       \/ /\ calc.output.mode = "single"
          /\ calc.output.calls = 0
          /\ RunForCall(calc.input.a + calc.input.b)
    /\ calc' = [calc EXCEPT !.output.calls = @ + 1]
    /\ UNCHANGED <<flag, bus, cpu, cpu_trace, memVars>>

\* one iteration of run_for's loop; the task resumed follows its script
ComposeResume ==
    /\ pc = "loop"
    /\ \E i \in 1..Len(scheduled_tasks) :
        /\ VecHas(active_tasks, scheduled_tasks[i].task_id)
        /\ \E obj \in {ResumedObj(i)} :
           \E result \in {ScriptResult(calc.input.script[obj],
                                       calc.output.count[obj] + 1)} :
            /\ Resume(i, result)
            /\ calc' = [calc EXCEPT
                    !.output.count[obj] = @ + 1,
                    !.output.log = Append(@,
                        [obj |-> obj, at |-> scheduled_tasks[i].scheduled_at,
                         result |-> result])]
    /\ UNCHANGED <<flag, bus, cpu, cpu_trace, memVars>>

\* the first scheduler is done (both calls returned, or run_for aborted):
\* its outcome is recorded and the tasks start over on TaskScheduler::new()
ComposeRestart ==
    /\ calc.output.mode = "split"
    /\ \/ pc = "idle" /\ calc.output.calls = 2
       \/ pc = "panicked"
    /\ calc' = [calc EXCEPT !.output =
            ComposeStart("single",
                Some([current_time |-> current_time,
                      scheduled_tasks |-> scheduled_tasks,
                      active_tasks |-> active_tasks,
                      pc |-> pc,
                      log |-> calc.output.log]))]
    /\ current_time' = 0
    /\ scheduled_tasks' = <<>>
    /\ active_tasks' = <<>>
    /\ pc' = "idle"
    /\ stop_time' = 0
    /\ call' = NoCall
    /\ last' = NoLast
    /\ added' = 0
    /\ UNCHANGED <<flag, bus, cpu, cpu_trace, memVars>>

NextCompose ==
    \/ AddInOrder
    \/ ComposeRunFor
    \/ ComposeResume
    \/ ResumePanics
    \/ RunForReturn
    \/ ComposeRestart

SpecCompose == InitCompose /\ [][NextCompose]_vars

(***************************************************************************)
(* Scenario: the master and the memory task at the ends of the RAM arrays. *)
(* The master chooses among accesses of every width to the last bytes of   *)
(* IWRAM (directly and through a mirror address) and of EWRAM.             *)
(***************************************************************************)
EdgeRequests ==
    { Request(W32(\h0300, \h7FFC), "Bit32", WriteOp),
      Request(W32(\h0300, \h7FFD), "Bit32", WriteOp),
      Request(W32(\h0300, \h7FFE), "Bit32", WriteOp),
      Request(W32(\h0300, \h7FFF), "Bit32", WriteOp),
      Request(W32(\h0300, \hFFFE), "Bit32", WriteOp),
      Request(W32(\h0300, \h7FFD), "Bit16", WriteOp),
      Request(W32(\h0300, \h7FFE), "Bit16", WriteOp),
      Request(W32(\h0300, \h7FFF), "Bit16", WriteOp),
      Request(W32(\h0300, \h7FFF), "Bit8", WriteOp),
      Request(W32(\h0300, \h7FFF), "Bit32", ReadOp(FALSE)),
      Request(W32(\h0300, \h7FFF), "Bit16", ReadOp(TRUE)),
      Request(W32(\h0300, \h7FFF), "Bit8", ReadOp(FALSE)),
      Request(W32(\h0203, \hFFFF), "Bit32", WriteOp),
      Request(W32(\h0203, \hFFFF), "Bit16", WriteOp),
      Request(W32(\h0203, \hFFFF), "Bit8", WriteOp),
      Request(W32(\h0203, \hFFFF), "Bit32", ReadOp(FALSE)) }

ResumeMasterAtEdge ==
    /\ MasterStep(EdgeRequests)
    /\ UNCHANGED <<flag, cpu, cpu_trace, mem, calc>>

\* the memory task's access faults: the panic unwinds through step() and
\* run_for, which never returns
ResumeMemoryPanics ==
    /\ pc = "loop"
    /\ \E i \in 1..Len(scheduled_tasks) :
        /\ IsPeek(scheduled_tasks, i)
        /\ ~LoopExits(scheduled_tasks[i].scheduled_at, stop_time)
        /\ VecHas(active_tasks, scheduled_tasks[i].task_id)
        /\ ResumedObj(i) = MemoryTask
        /\ \E r \in {MemoryRunTask(mem, bus)} :
            /\ r.memory.position = "panicked"
            /\ mem' = r.memory
        /\ last' = [kind |-> "panic", at |-> scheduled_tasks[i].scheduled_at,
                    task_id |-> scheduled_tasks[i].task_id,
                    obj |-> MemoryTask, owner |-> scheduled_tasks[i].owner,
                    cycles |-> 0, pos |-> i]
    /\ mem_trace' = [mem_trace EXCEPT
                        !.taken = IF @ < 2 THEN @ + 1 ELSE 2]
    /\ pc' = "panicked"
    /\ UNCHANGED <<current_time, scheduled_tasks, active_tasks, stop_time,
                   call, added>>
    /\ UNCHANGED <<flag, bus, cpu, cpu_trace, calc>>

NextMemEdge ==
    \/ AddMasterThenMemory
    \/ RunForMem
    \/ ResumeMasterAtEdge
    \/ ResumeMemory
    \/ ResumeMemoryPanics
    \/ RunForReturn

SpecMemEdge == Init /\ [][NextMemEdge]_vars

(***************************************************************************)
(* Steps of run_for, recognised from the outside                           *)
(***************************************************************************)
\* a loop iteration that resumed a task (run_for stays in its loop)
ResumeStep == pc = "loop" /\ pc' = "loop"

\* run_for returns to its caller
ReturnStep == pc = "loop" /\ pc' = "idle"

\* add_new_task was called
AddStep == added' = added + 1

\* the entry run_for resumes next, if it resumes one
IsNextResumed(i) ==
    /\ pc = "loop"
    /\ IsPeek(scheduled_tasks, i)
    /\ ~LoopExits(scheduled_tasks[i].scheduled_at, stop_time)

TaskIdsInUse ==
    {scheduled_tasks[k].task_id : k \in 1..Len(scheduled_tasks)}
        \cup {k - 1 : k \in 1..Len(active_tasks)}

C2_QueueIdsInTaskMap ==
    \A k \in 1..Len(scheduled_tasks) :
        VecHas(active_tasks, scheduled_tasks[k].task_id)

(***************************************************************************)
(* C3: completion of one task does not disturb the others.  run_for never  *)
(* aborts, and every resume through a queue entry resumes the task object  *)
(* the entry was created for.                                              *)
(***************************************************************************)
C3_CompletionKeepsOthers ==
    /\ pc # "panicked"
    /\ last.kind \in {"Yielded", "Complete"} => last.obj = last.owner

(***************************************************************************)
(* C4: with A and B added in that order and each yielding 1 cycle, every   *)
(* cycle resumes A once and then B once: the first resume is A at cycle 0, *)
(* A at cycle t is followed by B at cycle t, B at cycle t by A at cycle    *)
(* t + 1, and when run_for returns the last resume was B at the cycle      *)
(* before the new current time.                                            *)
(***************************************************************************)
C4_Alternates ==
    /\ [][ResumeStep =>
            /\ last'.kind = "Yielded"
            /\ IF last.kind = "none"
               THEN last'.obj = TaskA /\ last'.at = 0
               ELSE IF last.obj = TaskA
                    THEN last'.obj = TaskB /\ last'.at = last.at
                    ELSE last'.obj = TaskA /\ last'.at = last.at + 1]_vars
    /\ [][ReturnStep =>
            /\ last.obj = TaskB
            /\ last.at = current_time' - 1
            /\ current_time' = call.start + call.cycles]_vars

C4_Witness ==
    /\ pc = "loop"
    /\ call.cycles > 1
    /\ call.start > 0
    /\ last.obj = TaskB
    /\ last.at = call.start + 1

(***************************************************************************)
(* C5: a task resumed at its due-time t that returns Yield(c) is re-queued *)
(* with due-time exactly t + c, under the same task-id, whatever the       *)
(* stored current time is.                                                 *)
(***************************************************************************)
C5_YieldRequeuesAtDuePlusCycles ==
    [][(ResumeStep /\ last'.kind = "Yielded") =>
        /\ Len(scheduled_tasks') = Len(scheduled_tasks)
        /\ LET requeued == scheduled_tasks'[Len(scheduled_tasks')] IN
            /\ requeued.task_id = last'.task_id
            /\ requeued.scheduled_at = last'.at + last'.cycles
        /\ \E i \in 1..Len(scheduled_tasks) :
            /\ IsNextResumed(i)
            /\ scheduled_tasks[i].scheduled_at = last'.at
            /\ scheduled_tasks[i].task_id = last'.task_id
            /\ WithoutEntry(scheduled_tasks, i) =
                   SubSeq(scheduled_tasks', 1, Len(scheduled_tasks') - 1)]_vars

\* a resume inside run_for(n), n > 1, at a due-time later than the stored
\* current time, yielding a positive cycle count
C5_Witness ==
    /\ pc = "loop"
    /\ call.cycles > 1
    /\ last.kind = "Yielded"
    /\ last.cycles > 0
    /\ last.at > current_time
    /\ scheduled_tasks # <<>>
    /\ scheduled_tasks[Len(scheduled_tasks)].scheduled_at = last.at + last.cycles

(***************************************************************************)
(* C6: run_for(n) started at T resumes an entry only if its due-time is    *)
(* strictly less than T + n, resumes entries in non-decreasing due-time    *)
(* order, returns only when no entry is due before T + n, and when idle    *)
(* every entry has due-time >= the current time.                           *)
(***************************************************************************)
C6_RunsUntilStopTime ==
    /\ [][ResumeStep =>
            /\ last'.at < call.start + call.cycles
            /\ last.kind # "none" => last'.at >= last.at]_vars
    /\ [][ReturnStep =>
            \A k \in 1..Len(scheduled_tasks) :
                scheduled_tasks[k].scheduled_at >= call.start + call.cycles]_vars
    /\ [](pc = "idle" =>
            \A k \in 1..Len(scheduled_tasks) :
                scheduled_tasks[k].scheduled_at >= current_time)

\* run_for returned leaving an entry due exactly at the new current time,
\* after resuming an entry due one cycle earlier
C6_Witness ==
    /\ pc = "idle"
    /\ call.made
    /\ call.cycles > 1
    /\ last.kind = "Yielded"
    /\ last.at = current_time - 1
    /\ \E k \in 1..Len(scheduled_tasks) :
        scheduled_tasks[k].scheduled_at = current_time

(***************************************************************************)
(* C7: after run_for(n) returns, current_time is its value before the call *)
(* plus n (also for n = 0 and for an empty queue); add_new_task and task   *)
(* resumption leave current_time unchanged.                                *)
(***************************************************************************)
C7_CurrentTimeAdvancesByN ==
    /\ ~call.made => current_time = 0
    /\ (call.made /\ pc = "idle") => current_time = call.start + call.cycles
    /\ pc # "idle" => current_time = call.start

\* a second or later call, with tasks queued, has returned
C7_Witness ==
    /\ pc = "idle"
    /\ call.made
    /\ call.start > 0
    /\ call.cycles > 0
    /\ scheduled_tasks # <<>>
    /\ last.kind = "Yielded"
    /\ current_time = call.start + call.cycles

(***************************************************************************)
(* C8: add_task assigns a task-id different from every task-id currently   *)
(* in the scheduling queue or the task map, and enqueues the new task with *)
(* due-time equal to the current virtual time.                             *)
(***************************************************************************)
C8_AddTaskIdFresh ==
    [][AddStep =>
        LET new == scheduled_tasks'[Len(scheduled_tasks')] IN
            /\ new.task_id \notin TaskIdsInUse
            /\ new.scheduled_at = current_time]_vars

C10_WaitingStepChangesNothing ==
    [][(cpu_trace'.steps # cpu_trace.steps /\ (bus.busy \/ bus.dma_active)) =>
        /\ bus'.request = bus.request
        /\ bus'.data = bus.data
        /\ cpu'.regs = cpu.regs
        /\ cpu'.cpsr = cpu.cpsr
        /\ cpu'.f_out_instr = cpu.f_out_instr
        /\ cpu'.d_out_instr = cpu.d_out_instr
        /\ cpu'.current_execute_state = cpu.current_execute_state
        /\ cpu'.abort = "none"]_vars

\* the CPU, its pipeline full and an instruction other than the latch's
\* reset value waiting on the bus, has just been stepped while only
\* dma_active was set
C10_Witness ==
    /\ cpu_trace.waited
    /\ bus.dma_active
    /\ ~bus.busy
    /\ cpu.current_execute_state = "FirstCycle"
    /\ bus.request # None
    /\ bus.data # cpu.d_out_instr
    /\ cpu.regs[0] # W32(0, 0)

(***************************************************************************)
(* C11: a make_request called while a request of the same cycle is still   *)
(* outstanding aborts with an assertion failure instead of replacing it:   *)
(* a master step that called make_request twice leaves the program         *)
(* panicked.                                                               *)
(***************************************************************************)
C11_SecondRequestAborts ==
    mem_trace.doubled => pc = "panicked"

(***************************************************************************)
(* C12: EWRAM wait states.  With the master (the CPU's place) added before *)
(* the memory task, after a request to EWRAM issued at cycle t the master  *)
(* finds busy set at its steps of cycles t+1 .. t+2 (8 and 16 bits) or     *)
(* t+1 .. t+5 (32 bits), and finds busy clear and the access performed at  *)
(* its step of cycle t+3, respectively t+6.                                *)
(***************************************************************************)
C12_EwramWaitStates ==
    \A i \in 1..Len(scheduled_tasks) :
        ( /\ IsNextResumed(i)
          /\ VecHas(active_tasks, scheduled_tasks[i].task_id)
          /\ ResumedObj(i) = Master
          /\ active_tasks = <<Master, MemoryTask>>
          /\ mem_trace.requests > 0
          /\ RegionOf(bus.request[1].address) = 2 )
        => LET waited == scheduled_tasks[i].scheduled_at - mem_trace.issued_at
               latency == IF bus.request[1].width = "Bit32" THEN 6 ELSE 3
           IN /\ (waited >= 1 /\ waited < latency) => bus.busy
              /\ waited = latency =>
                    (~bus.busy /\ mem_trace.done = bus.request)

\* the master is about to step six cycles after it issued a 32-bit EWRAM
\* request, and finds the bus free and the access done
C12_Witness ==
    \E i \in 1..Len(scheduled_tasks) :
        /\ IsNextResumed(i)
        /\ ResumedObj(i) = Master
        /\ mem_trace.requests > 0
        /\ RegionOf(bus.request[1].address) = 2
        /\ bus.request[1].width = "Bit32"
        /\ scheduled_tasks[i].scheduled_at = mem_trace.issued_at + 6
        /\ ~bus.busy
        /\ mem_trace.done = bus.request

(***************************************************************************)
(* C13: bus liveness.  Whenever the memory task has set busy, busy is      *)
(* cleared again later, as long as run_for keeps being called (checked for *)
(* accesses whose last wait ends before the modelled time runs out).       *)
(***************************************************************************)
C13_BusyEventuallyCleared ==
    ( /\ bus.busy
      /\ \E i \in 1..Len(scheduled_tasks) :
            /\ scheduled_tasks[i].owner = MemoryTask
            /\ scheduled_tasks[i].scheduled_at
                 + (IF mem.position = "wait2"
                       /\ mem.request[1].width = "Bit32"
                    THEN 3 ELSE 0) < MemMaxTime )
    ~> ~bus.busy

\* an EWRAM access has been completed and the bus released
C13_Witness ==
    /\ mem_trace.done # None
    /\ RegionOf(mem_trace.done[1].address) = 2
    /\ mem_trace.done[1].width = "Bit16"
    /\ ~bus.busy
    /\ mem.position = "loop"

(***************************************************************************)
(* C14: BIOS lock.  When the memory task takes up a request: if it is an   *)
(* instruction fetch, bios_unlocked becomes (address < 0x4000); a read     *)
(* addressed to the BIOS region then returns, while unlocked, the          *)
(* addressed word, which becomes the cached value, and while locked the    *)
(* cached value of the latest unlocked BIOS read.                          *)
(***************************************************************************)
C14_BiosLock ==
    [][ ( /\ ResumeStep
          /\ last'.obj = MemoryTask
          /\ mem.position = "loop"
          /\ bus.request # None )
        => LET request == bus.request[1]
               fetch == request.op.type = "Read" /\ request.op.is_instruction
               unlocked == IF fetch
                           THEN request.address.hi = 0
                                /\ request.address.lo < 16384
                           ELSE mem.bios_unlocked
               at == (request.address.lo % 16384)
                        - (request.address.lo % 4)
               word == W32(BiosImage[at + 2] + 256 * BiosImage[at + 3],
                           BiosImage[at] + 256 * BiosImage[at + 1])
           IN /\ mem'.bios_unlocked = unlocked
              /\ (request.address.hi \div 256 = 0 /\ request.op.type = "Read")
                   => IF unlocked
                      THEN bus'.data = word /\ mem'.last_bios_read = word
                      ELSE /\ bus'.data = mem.last_bios_read
                           /\ mem'.last_bios_read = mem.last_bios_read
      ]_vars

\* a locked read of the BIOS region has returned the cached word of an
\* earlier unlocked read, which is not the addressed word
C14_Witness ==
    /\ mem_trace.done # None
    /\ RegionOf(mem_trace.done[1].address) = 0
    /\ ~mem.bios_unlocked
    /\ bus.data = mem.last_bios_read
    /\ bus.data = W32(\hEA00, \h0006)
    /\ mem_trace.done[1].address = W32(\h0000, \h4000)

(***************************************************************************)
(* C15: read mirroring.  After a completed 16-bit read of BIOS (unlocked), *)
(* EWRAM or IWRAM bus.data holds the addressed half-word in both halves;   *)
(* after a completed 8-bit read it holds the addressed byte in all four    *)
(* byte lanes.                                                             *)
(***************************************************************************)
C15_ReadMirroring ==
    ( /\ mem_trace.done # None
      /\ mem_trace.done[1].op.type = "Read"
      /\ RegionOf(mem_trace.done[1].address) \in {0, 2, 3}
      /\ RegionOf(mem_trace.done[1].address) = 0 => mem.bios_unlocked )
    => LET request == mem_trace.done[1]
           region == RegionOf(request.address)
           memory == CASE region = 0 -> BiosImage
                       [] region = 2 -> mem.ewram
                       [] region = 3 -> mem.iwram
           at == request.address.lo % RamWindow
           half == memory[at - (at % 2)] + 256 * memory[at - (at % 2) + 1]
           byte == memory[at]
       IN /\ request.width = "Bit16" =>
                (bus.data.hi = half /\ bus.data.lo = half)
          /\ request.width = "Bit8" =>
                (bus.data.hi = 257 * byte /\ bus.data.lo = 257 * byte)

(***************************************************************************)
(* C16: write/read round trip.  After a completed 32-bit read of a         *)
(* word-aligned EWRAM or IWRAM address, bus.data is the word of the latest *)
(* completed 32-bit write to that address, if no other write to that word  *)
(* was completed in between.                                               *)
(***************************************************************************)
C16_WriteReadRoundTrip ==
    ( /\ mem_trace.done # None
      /\ mem_trace.done[1].op.type = "Read"
      /\ mem_trace.done[1].width = "Bit32"
      /\ mem_trace.done[1].address.lo % 4 = 0
      /\ RegionOf(mem_trace.done[1].address) \in {2, 3}
      /\ mem_trace.written[RegionOf(mem_trace.done[1].address)] # None )
    => bus.data = mem_trace.written[RegionOf(mem_trace.done[1].address)][1]

\* a word written to EWRAM in two halves has been read back in two halves
C16_Witness ==
    /\ mem_trace.done # None
    /\ mem_trace.done[1].op.type = "Read"
    /\ mem_trace.done[1].width = "Bit32"
    /\ RegionOf(mem_trace.done[1].address) = 2
    /\ mem_trace.written[2] = Some(W32(\h1234, \hABCD))
    /\ bus.data = W32(\h1234, \hABCD)
    /\ mem.ewram[0] = 205

(***************************************************************************)
(* C17: PC+8.  Whenever the execute stage executes an instruction, r15 as  *)
(* that stage sees it is the address the instruction was fetched from      *)
(* plus 8.                                                                 *)
(***************************************************************************)
C17_PcIsFetchAddressPlus8 ==
    (cpu_trace.executed /\ cpu_trace.e_addr # None)
    => cpu_trace.r15 = WrappingAdd32(cpu_trace.e_addr[1], W32(0, 8))

(***************************************************************************)
(* C18: fetch advances by one word per cycle.  Every step that does not    *)
(* wait issues one 32-bit instruction read at pc and then pc is pc + 4     *)
(* unless a branch was executed; the addresses requested by two            *)
(* consecutive such steps with no discontinuity between them differ by 4.  *)
(***************************************************************************)
C18_FetchAdvancesByFour ==
    (cpu_trace.ran /\ cpu.abort = "none")
    => /\ bus.request # None
       /\ bus.request[1].address = cpu_trace.r15
       /\ bus.request[1].width = "Bit32"
       /\ bus.request[1].op = [type |-> "Read", is_instruction |-> TRUE]
       /\ ~cpu_trace.branched =>
            cpu.regs[PC] = WrappingAdd32(cpu_trace.r15, W32(0, 4))
       /\ (cpu_trace.prev_fetch # None /\ ~cpu_trace.first) =>
            cpu_trace.fetch =
                Some(WrappingAdd32(cpu_trace.prev_fetch[1], W32(0, 4)))

(***************************************************************************)
(* C19: sequential flag.  The request of the first step that does not wait *)
(* after reset or after a branch has seq = false and is addressed to the   *)
(* new pc (0 after reset, the branch target after a branch); the request   *)
(* of every other step has seq = true.                                     *)
(***************************************************************************)
C19_SequentialFlag ==
    cpu_trace.ran
    => /\ bus.request # None
       /\ bus.request[1].seq = ~cpu_trace.first
       /\ cpu_trace.first =>
            bus.request[1].address =
                (IF cpu_trace.target = None THEN W32(0, 0)
                 ELSE cpu_trace.target[1])

\* the first fetch after the branch of test_branch: at 0x20, not sequential
C19_Witness ==
    /\ cpu_trace.ran
    /\ cpu_trace.first
    /\ cpu_trace.target = Some(W32(0, 32))
    /\ bus.request # None
    /\ bus.request[1].address = W32(0, 32)
    /\ ~bus.request[1].seq

(***************************************************************************)
(* C20: pipeline refill.  The first two steps that do not wait after a     *)
(* branch execute nothing: no register other than pc and no flag changes   *)
(* and the program does not abort, whatever words are in the latches.  The *)
(* third executes the instruction fetched from the branch target.          *)
(***************************************************************************)
C20_PipelineRefill ==
    [][ ( /\ cpu_trace'.steps = cpu_trace.steps + 1
          /\ ~cpu_trace'.waited
          /\ cpu_trace.target # None )
        => /\ cpu_trace.since_branch \in {0, 1} =>
                /\ \A r \in 0..14 : cpu'.regs[r] = cpu.regs[r]
                /\ cpu'.cpsr = cpu.cpsr
                /\ cpu'.abort = "none"
                /\ ~cpu_trace'.executed
           /\ cpu_trace.since_branch = 2 =>
                /\ cpu_trace'.executed
                /\ cpu_trace'.e_addr = cpu_trace.target
      ]_vars

\* the mov placed at the branch target has been executed by the third step
\* after the branch
C20_Witness ==
    /\ cpu_trace.since_branch = 3
    /\ cpu_trace.target = Some(W32(0, 32))
    /\ cpu_trace.executed
    /\ cpu_trace.e_addr = cpu_trace.target
    /\ cpu.regs[0] = W32(\h0800, 0)
    /\ cpu.abort = "none"

(***************************************************************************)
(* C21: branch target.  Executing B/BL with offset field o sets pc to      *)
(* r15 + (sign_extend_24(o) << 2) modulo 2^32, r15 being the value at      *)
(* execute: a field with bit 23 set branches backwards.                    *)
(***************************************************************************)
C21_BranchTargetSignExtended ==
    (cpu_trace.executed /\ cpu_trace.branched)
    => LET offset == DecodeArmInstruction(cpu_trace.e_instr[1]).offset
       IN cpu.regs[PC] =
            IF offset >= 8388608
            THEN WrappingSub32(cpu_trace.r15,
                               WordOfNat((16777216 - offset) * 4))
            ELSE WrappingAdd32(cpu_trace.r15, WordOfNat(offset * 4))

(***************************************************************************)
(* C22: pipeline latency.  The word the execute stage is given on a step   *)
(* that does not wait is the word the step before it read from the bus,    *)
(* that is the word returned for the fetch issued two such steps earlier,  *)
(* and nothing executes before the third step.  From reset, with E3A00302  *)
(* returned for the first fetch, r0 is 0 after two steps and 0x08000000    *)
(* after exactly three, whatever the next fetches return.                  *)
(***************************************************************************)
C22_PipelineLatency ==
    /\ cpu_trace.runs <= 2 =>
            /\ ~cpu_trace.executed
            /\ \A r \in 0..14 : cpu.regs[r] = W32(0, 0)
    /\ cpu_trace.runs >= 3 => cpu_trace.e_instr = cpu_trace.prev_din
    /\ (cpu_trace.runs = 3 /\ cpu_trace.prev_din = Some(W32(\hE3A0, \h0302)))
        => /\ cpu_trace.executed
           /\ cpu.regs[0] = W32(\h0800, 0)
           /\ cpu.abort = "none"

\* test_mov with a stall in between and another instruction word returned
\* for the second fetch
C22_Witness ==
    /\ cpu_trace.runs = 3
    /\ cpu_trace.steps > 3
    /\ cpu_trace.prev_din = Some(W32(\hE3A0, \h0302))
    /\ cpu_trace.din = Some(W32(\hE281, \h1001))
    /\ cpu.regs[0] = W32(\h0800, 0)

(***************************************************************************)
(* C23: condition evaluation.  An executed instruction whose condition     *)
(* (EQ .. LE) fails against the N, Z, C, V flags changes no register       *)
(* r0..r14 and no flag, does not branch and does not abort.                *)
(***************************************************************************)
C23_FailedConditionIsNop ==
    LET before == cpu_trace.e_cpu[1]
        cond == BitField(cpu_trace.e_instr[1], 28, 31)
        n == Bit(before.cpsr, 31) = 1
        z == Bit(before.cpsr, 30) = 1
        c == Bit(before.cpsr, 29) = 1
        v == Bit(before.cpsr, 28) = 1
        passes ==
            CASE cond = 0 -> z
              [] cond = 1 -> ~z
              [] cond = 2 -> c
              [] cond = 3 -> ~c
              [] cond = 4 -> n
              [] cond = 5 -> ~n
              [] cond = 6 -> v
              [] cond = 7 -> ~v
              [] cond = 8 -> c /\ ~z
              [] cond = 9 -> ~c \/ z
              [] cond = 10 -> n = v
              [] cond = 11 -> n # v
              [] cond = 12 -> ~z /\ n = v
              [] cond = 13 -> z \/ n # v
              [] OTHER -> TRUE
    IN (cpu_trace.executed /\ ~passes)
       => /\ \A r \in 0..14 : cpu.regs[r] = before.regs[r]
          /\ cpu.cpsr = before.cpsr
          /\ cpu.current_execute_state = "FirstCycle"
          /\ cpu.abort = "none"

(***************************************************************************)
(* C24: unknown or undefined instructions are not fatal.  When a word that *)
(* decodes to UnknownInstruction or UndefinedInstruction is executed, the  *)
(* CPU does not abort and no register r0..r14 changes.                     *)
(***************************************************************************)
C24_UnknownInstructionIsNop ==
    ( /\ cpu_trace.executed
      /\ DecodeArmInstruction(cpu_trace.e_instr[1]).variant
            \in {"UnknownInstruction", "UndefinedInstruction"} )
    => /\ cpu.abort = "none"
       /\ \A r \in 0..14 : cpu.regs[r] = cpu_trace.e_cpu[1].regs[r]

(***************************************************************************)
(* C25: compare-only instructions.  Executing a data-processing immediate  *)
(* instruction with opcode 8, 9, 10 or 11 (TST, TEQ, CMP, CMN) changes no  *)
(* register r0..r14, whatever rd, rn, the immediate and s are.             *)
(***************************************************************************)
C25_CompareOnlyKeepsRegisters ==
    LET d == DecodeArmInstruction(cpu_trace.e_instr[1]) IN
    ( /\ cpu_trace.executed
      /\ d.variant = "DataProcessingImmediate"
      /\ d.opcode \in {8, 9, 10, 11} )
    => \A r \in 0..14 : cpu.regs[r] = cpu_trace.e_cpu[1].regs[r]

\* opcode 9 with s clear and rd = 2 was executed after the mov: its result
\* 0x08000001 differs from r2 and the CPU runs on
C25_Witness ==
    /\ cpu_trace.executed
    /\ cpu_trace.e_instr = Some(W32(\hE320, \h2001))
    /\ cpu_trace.e_cpu[1].regs[0] = W32(\h0800, 0)
    /\ cpu.regs[2] = W32(0, 0)
    /\ cpu.abort = "none"

(***************************************************************************)
(* C26: decoder exclusivity.  No two of the seven patterns can match the   *)
(* same word, so a word matches at most one pattern; the decoder returns   *)
(* the variant of the pattern the word matches, whatever the order of the  *)
(* tests, and UnknownInstruction exactly when it matches none.             *)
(***************************************************************************)
C26_DecoderExclusive ==
    /\ \A p, q \in DOMAIN DecoderPatterns :
        p # q =>
            \E k \in 1..32 :
                /\ DecoderPatterns[p].format[k] \in {0, 1}
                /\ DecoderPatterns[q].format[k] \in {0, 1}
                /\ DecoderPatterns[p].format[k] # DecoderPatterns[q].format[k]
    /\ (calc.op = "decode" /\ calc.output # None) =>
        LET matching == { p \in DOMAIN DecoderPatterns :
                            Test(calc.input.instr, DecoderPatterns[p].format) }
        IN /\ Cardinality(matching) <= 1
           /\ \A p \in matching :
                calc.output[1].variant = DecoderPatterns[p].variant
           /\ matching = {} <=> calc.output[1].variant = "UnknownInstruction"

\* bx r0 (0xE12FFF10), whose bits 27..25 are those of the MSR and LDRH/STRH
\* patterns too, decoded as BranchAndExchangeReg
C26_Witness ==
    /\ calc.op = "decode"
    /\ calc.input.instr = W32(\hE12F, \hFF10)
    /\ calc.output = Some([variant |-> "BranchAndExchangeReg", cond |-> 14,
                           rm |-> 0])

(***************************************************************************)
(* C27: decoder round trip.  Decoding the word that encodes cond, opcode,  *)
(* s, rn, rd, rotate and imm in the data-processing immediate pattern      *)
(* returns DataProcessingImmediate with exactly those fields.              *)
(***************************************************************************)
C27_DataProcessingRoundTrip ==
    (calc.op = "decode" /\ calc.output # None /\ calc.input.kind = "dp")
    => LET f == calc.input.fields[1] IN
       calc.output[1] =
            [variant |-> "DataProcessingImmediate", cond |-> f.cond,
             opcode |-> f.opcode, s |-> f.s, rn |-> f.rn, rd |-> f.rd,
             rotate |-> f.rotate, imm |-> f.imm]

\* decode_cmp_imm: cmp r1, #234 encodes to 0xE35100EA and decodes back
C27_Witness ==
    /\ calc.op = "decode"
    /\ calc.input.kind = "dp"
    /\ calc.input.instr = W32(\hE351, \h00EA)
    /\ calc.output # None
    /\ calc.output[1].opcode = 10
    /\ calc.output[1].s
    /\ calc.output[1].rn = 1
    /\ calc.output[1].imm = 234

(***************************************************************************)
(* C28: load/store immediate decoding.  Every word whose bits 27..25 are   *)
(* 010 decodes to LoadStoreImmOffset with cond = bits 31..28, P = bit 24,  *)
(* U = bit 23, B = bit 22, W = bit 21, L = bit 20, rn = bits 19..16,       *)
(* rd = bits 15..12 and imm = bits 11..0, at most 4095.                    *)
(***************************************************************************)
C28_LoadStoreImmDecoding ==
    /\ (calc.op = "decode" /\ calc.output # None /\ calc.input.kind = "ls")
        => LET f == calc.input.fields[1] IN
           calc.output[1] =
                [variant |-> "LoadStoreImmOffset", cond |-> f.cond,
                 indexing_p |-> f.indexing_p, imm_add |-> f.imm_add,
                 byte |-> f.byte, indexing_w |-> f.indexing_w,
                 load |-> f.load, rn |-> f.rn, rd |-> f.rd, imm |-> f.imm]
    /\ ( /\ calc.op = "decode"
         /\ calc.output # None
         /\ (calc.input.instr.hi \div 512) % 8 = 2 )
        => /\ calc.output[1].variant = "LoadStoreImmOffset"
           /\ calc.output[1].cond = calc.input.instr.hi \div 4096
           /\ calc.output[1].rn = calc.input.instr.hi % 16
           /\ calc.output[1].rd = calc.input.instr.lo \div 4096
           /\ calc.output[1].imm = calc.input.instr.lo % 4096
           /\ calc.output[1].imm <= 4095

\* decode_ldrb: ldrb r1, [r0, #3] (0xE5D01003), given by its fields
C28_Witness ==
    /\ calc.op = "decode"
    /\ calc.input.kind = "ls"
    /\ calc.input.instr = W32(\hE5D0, \h1003)
    /\ calc.output # None
    /\ calc.output[1].byte
    /\ calc.output[1].load
    /\ calc.output[1].rd = 1
    /\ calc.output[1].imm = 3

(***************************************************************************)
(* C29: PPU composition.  At every pixel the layer whose colour is output  *)
(* is a candidate whose priority is less than or equal to that of every    *)
(* other candidate, and the earliest such in the order obj, bg0, bg1, bg2, *)
(* bg3, backdrop; where an enabled background is opaque the output is not  *)
(* the backdrop.                                                           *)
(***************************************************************************)
C29_TopLayerHasLowestPriority ==
    ( /\ calc.op = "render"
      /\ calc.output # None
      /\ calc.output[1].abort = "none" )
    => \A screen_x \in 0..239 :
        LET layers == calc.output[1].layers[1][screen_x]
            top == calc.output[1].top[1][screen_x]
            candidates == {i \in 1..6 : layers[i] # None}
        IN /\ calc.output[1].buf[1][screen_x] = top.color
           /\ \E t \in candidates :
                /\ layers[t] = Some(top)
                /\ \A i \in candidates :
                    /\ top.priority <= layers[i][1].priority
                    /\ top.priority = layers[i][1].priority => t <= i
           /\ candidates # {6} => top.id # <<"Backdrop">>

\* mode 0 with all four backgrounds enabled, priorities 1, 1, 0, 0: at some
\* pixel the four backgrounds are opaque and bg2 is shown, not bg3 of the
\* same priority nor bg0; at another pixel of the line the backdrop shows
C29_Witness ==
    /\ calc.op = "render"
    /\ calc.output # None
    /\ calc.output[1].abort = "none"
    /\ calc.input.regs.video_mode = 0
    /\ \A bg \in 0..3 : calc.input.regs.bg_layer_enabled[bg]
    /\ \E screen_x \in 0..239 :
        /\ \A i \in 2..5 : calc.output[1].layers[1][screen_x][i] # None
        /\ calc.output[1].layers[1][screen_x][4][1].priority
            = calc.output[1].layers[1][screen_x][5][1].priority
        /\ calc.output[1].layers[1][screen_x][2][1].priority = 1
        /\ calc.output[1].top[1][screen_x].id = <<"Bg", 2>>
    /\ \E screen_x \in 0..239 :
        calc.output[1].top[1][screen_x].id = <<"Backdrop">>

(***************************************************************************)
(* C30: all backgrounds disabled.  With the four enable bits clear,        *)
(* render_lcd_line returns a line whose 240 pixels are palette[0], for     *)
(* every video mode 0..5, scanline, VRAM and register content.             *)
(***************************************************************************)
C30_DisabledBackgroundsShowBackdrop ==
    ( /\ calc.op = "render"
      /\ calc.output # None
      /\ calc.input.regs.video_mode \in 0..5
      /\ \A bg \in 0..3 : ~calc.input.regs.bg_layer_enabled[bg] )
    => /\ calc.output[1].abort = "none"
       /\ \A screen_x \in 0..239 :
            calc.output[1].buf[1][screen_x] = calc.input.pals[1]

(***************************************************************************)
(* C31: rendering never faults.  For every state of the LCD registers that *)
(* register writes produce and every scanline 0..159, render_lcd_line      *)
(* returns a line of 240 pixels: it does not abort and no index falls      *)
(* outside the VRAM or palette slices.                                      *)
(***************************************************************************)
C31_RenderingNeverFaults ==
    ( /\ calc.op = "render"
      /\ calc.output # None
      /\ calc.input.screen_y \in 0..159 )
    => /\ calc.output[1].abort = "none"
       /\ calc.output[1].buf # None
       /\ DOMAIN calc.output[1].buf[1] = 0..239

(***************************************************************************)
(* C32: SUB, CMP and RSB agree with the adder.  For opcodes 2 and 10       *)
(* alu_operation returns the result of add_with_carry(op1, ~op2, 1), and   *)
(* for opcode 3 that of add_with_carry(op2, ~op1, 1), with the carry and   *)
(* overflow flags of the returned CPSR equal to its carry and overflow,    *)
(* and none of the three assert_eq! fails.                                 *)
(***************************************************************************)
C32_SubtractAgreesWithAdder ==
    ( /\ calc.op = "alu"
      /\ calc.output # None
      /\ calc.input.opcode \in {2, 3, 10} )
    => LET a == IF calc.input.opcode = 3 THEN calc.input.op2
                ELSE calc.input.op1
           b == IF calc.input.opcode = 3 THEN calc.input.op1
                ELSE calc.input.op2
           sum == AddWithCarry(a, Not32(b), TRUE)
       IN /\ calc.output[1].asserts_hold
          /\ calc.output[1].value = sum.value
          /\ CpsrFlag(calc.output[1].cpsr, CarryBit) = sum.carry
          /\ CpsrFlag(calc.output[1].cpsr, OverflowBit) = sum.overflow

(***************************************************************************)
(* C33: the CPSR flags are the independent bits N = 31, Z = 30, C = 29,    *)
(* V = 28.  After ADD or CMN the carry flag read back is the carry out of  *)
(* the addition and the overflow flag read back is its signed overflow;    *)
(* no flag other than N, Z, C and V changes.                               *)
(***************************************************************************)
C33_FlagsAreIndependentBits ==
    ( /\ calc.op = "alu"
      /\ calc.output # None
      /\ calc.input.opcode \in {4, 11} )
    => LET add == OverflowingAdd32(calc.input.op1, calc.input.op2)
       IN /\ CpsrFlag(calc.output[1].cpsr, CarryBit) = add.overflowed
          /\ CpsrFlag(calc.output[1].cpsr, OverflowBit)
                = AddHasSignedOverflow(calc.input.op1, calc.input.op2,
                                       add.value)
          /\ \A i \in 0..27 :
                Bit(calc.output[1].cpsr, i) = Bit(calc.input.cpsr, i)

(***************************************************************************)
(* C34: flag update.  Executing a data-processing immediate instruction    *)
(* with s = 1 and rd other than 15, a compare-only one included, does not  *)
(* abort and leaves N equal to bit 31 of the result and Z equal to         *)
(* (result = 0).                                                           *)
(***************************************************************************)
C34_FlagUpdate ==
    LET d == DecodeArmInstruction(cpu_trace.e_instr[1])
        before == cpu_trace.e_cpu[1]
        immv == DecodeImmediate(d.imm, d.rotate,
                                CpsrFlag(before.cpsr, CarryBit))
        result == AluOperation(d.opcode, before.regs[d.rn], immv.value,
                               immv.carry, before.cpsr).value
    IN ( /\ cpu_trace.executed
         /\ d.variant = "DataProcessingImmediate"
         /\ d.s
         /\ d.rd # PC )
       => /\ cpu.abort = "none"
          /\ CpsrFlag(cpu.cpsr, NegativeBit) = (Bit(result, 31) # 0)
          /\ CpsrFlag(cpu.cpsr, ZeroBit) = (result = W32(0, 0))

C37_OneEntryPerLiveTask ==
    pc = "idle" =>
        /\ Len(scheduled_tasks) = Len(active_tasks)
        /\ \A k \in 1..Len(active_tasks) :
            Cardinality({i \in 1..Len(scheduled_tasks) :
                           scheduled_tasks[i].owner = active_tasks[k]}) = 1
        /\ \A i \in 1..Len(scheduled_tasks) :
            \E k \in 1..Len(active_tasks) :
                active_tasks[k] = scheduled_tasks[i].owner

(***************************************************************************)
(* C38: run_for(n) terminates and resumes each task at most n times when   *)
(* every resume completes or yields at least 1 cycle.  Checked for n = 1:  *)
(* run_for does not abort, and in a call run_for(1) a task that was        *)
(* resumed and yielded at least 1 cycle is not resumed again by the next   *)
(* iteration of the same call.                                             *)
(***************************************************************************)
C38_ResumedAtMostNTimes ==
    /\ [](pc # "panicked")
    /\ [][( /\ ResumeStep
            /\ call.cycles = 1
            /\ last.kind = "Yielded"
            /\ last.cycles >= 1
            /\ last.at >= call.start )
          => last'.obj # last.obj]_vars

(***************************************************************************)
(* C39: the memory task never aborts.  For accesses of every width and     *)
(* operation, those to the last bytes of IWRAM and EWRAM included, no      *)
(* access faults: the memory task is always suspended at one of its waits  *)
(* and run_for is not aborted.                                             *)
(***************************************************************************)
C39_MemoryTaskNeverAborts ==
    /\ mem.position \in {"loop", "wait2", "wait3"}
    /\ pc # "panicked"

(***************************************************************************)
(* C36: run_for composes.  For deterministic tasks, when run_for(a + b)    *)
(* on a fresh scheduler is over (it returned or aborted), the sequence of  *)
(* resumes, the queue contents and the task map are those that run_for(a)  *)
(* followed by run_for(b) produced from the same start, and if it returned *)
(* the current time is the same as well.                                   *)
(***************************************************************************)
C36_RunForComposes ==
    ( /\ calc.op = "compose"
      /\ calc.output.mode = "single"
      /\ \/ pc = "idle" /\ calc.output.calls = 1
         \/ pc = "panicked" )
    => LET split == calc.output.split[1] IN
        /\ calc.output.log = split.log
        /\ pc = split.pc
        /\ scheduled_tasks = split.scheduled_tasks
        /\ active_tasks = split.active_tasks
        /\ pc = "idle" => current_time = split.current_time

\* run_for(a + b) has returned after resuming a task in each of the two
\* stretches, one task has completed on the way, and the record of the
\* split run is the same
C36_Witness ==
    /\ calc.op = "compose"
    /\ calc.output.mode = "single"
    /\ pc = "idle"
    /\ calc.output.calls = 1
    /\ Len(active_tasks) = 1
    /\ \E k \in 1..Len(calc.output.log) :
        calc.output.log[k].at < calc.input.a
    /\ \E k \in 1..Len(calc.output.log) :
        calc.output.log[k].at >= calc.input.a
    /\ calc.output.log = calc.output.split[1].log
    /\ current_time = calc.input.a + calc.input.b
====
